---- MODULE Spec2Model ----
(***************************************************************************)
(* Webhook tool engine of universalagent: the template resolver            *)
(* (tools/template_resolver.py) and the webhook tool builder and executor  *)
(* (tools/webhook_tool_builder.py).                                        *)
(*                                                                         *)
(* Text.  A Python str is a sequence of segments.  A segment is a run of   *)
(* plain characters (Lit), the text of one placeholder "{{ns.key}}" (Ph),  *)
(* an opening "{{" that is never closed (Open), or the text of one other   *)
(* Jinja construct, which PLACEHOLDER_PATTERN does not match: an           *)
(* expression (Expr), a filtered lookup (Filter), a two-level attribute    *)
(* path (Path), a conditional block (IfBlock), a comment (Comment), an     *)
(* unclosed "{%" (OpenBlock) or an unclosed "{#" (OpenComment).  Rendered  *)
(* text and the values stored in the namespaces are strings of the same    *)
(* kind, so a value may itself spell a placeholder.                        *)
(*                                                                         *)
(* Values.  A Python value is a tagged node: Str (a string), Num (an int), *)
(* MapV (a dict) or ListV (a list); NoneV is None.  Dicts are always       *)
(* carried as MapV nodes.                                                  *)
(***************************************************************************)
EXTENDS Integers, Sequences, FiniteSets, TLC

VARIABLES
    \* ---- TemplateResolver calls (SpecRender, SpecValidate) ----
    template,            \* the template argument
    const,               \* render_template: const namespace
    ctx,                 \* render_template: ctx namespace
    arg,                 \* render_template: arg namespace
    allowed_namespaces,  \* validate_template: allowed_namespaces
    rendered,            \* outcome of render_template
    validated,           \* outcome of validate_template
    namespaces,          \* outcome of extract_namespaces
    dict_data,           \* render_dict: the data argument
    log,                 \* entries written by logger.debug during the last render
    \* ---- WebhookToolBuilder (Spec) ----
    config,              \* the ToolConfig handed to build_webhook_tool
    tool,                \* outcome of build_webhook_tool: ToolHolder or error
    pc,                  \* "idle", or "waiting" inside `await client.request`
    run_ctx,             \* RunContext of the invocation
    llm_args,            \* kwargs of the invocation
    request,             \* the request handed to httpx by the invocation
    response,            \* what httpx answered
    result,              \* outcome of the last finished invocation
    invocations,         \* invocations started
    sent,                \* requests issued by the current invocation
    total,               \* requests issued by all invocations
    \* ---- AgentConfig (SpecAgent) ----
    agent_args,          \* the arguments of AgentConfig(...)
    agent_config,        \* outcome of the construction: the AgentConfig or error
    lookup,              \* the last get_tool_by_name call and what it returned
    \* ---- fire-and-forget tools (SpecDetached) ----
    ff_holder,           \* the fire-and-forget tool: how it was made, its names
    tasks,               \* the tasks made by asyncio.create_task, in order
    acks,                \* what each invocation of the wrapper returned or raised
    task_log,            \* entries written to the logger
    session_ended,       \* the session that owns the invocations has ended
    \* ---- the shared builder (SpecBuilds, SpecConcurrent) ----
    builder,             \* the module-level _builder
    builds,              \* the build_webhook_tool calls made, with their outcomes
    inflight,            \* the invocations started, each with its own position
    userdata             \* the session's key-value state

rvars == <<template, const, ctx, arg, allowed_namespaces, rendered, validated, namespaces,
           dict_data, log>>

xvars == <<config, tool, pc, run_ctx, llm_args, request, response, result, invocations, sent, total>>

avars == <<agent_args, agent_config, lookup>>

dvars == <<ff_holder, tasks, acks, task_log, session_ended>>

svars == <<builder, builds, inflight, userdata>>

vars == <<rvars, xvars, avars, dvars, svars>>

-----------------------------------------------------------------------------
(* Strings and values *)

Lit(s) == [t |-> "lit", s |-> s]
Ph(ns, key) == [t |-> "ph", ns |-> ns, key |-> key]
Open == [t |-> "open"]
\* "{{ 7 * 7 }}"
Expr == [t |-> "expr"]
\* "{{ ns.key | lower }}"
Filter(ns, key) == [t |-> "filter", ns |-> ns, key |-> key]
\* "{{ ns.key.upper }}"
Path(ns, key) == [t |-> "path", ns |-> ns, key |-> key]
\* "{% if ns.key %}on{% endif %}"
IfBlock(ns, key) == [t |-> "if", ns |-> ns, key |-> key]
\* "{# note #}"
Comment == [t |-> "comment"]
\* "{%" and "{#" that are never closed
OpenBlock == [t |-> "openblock"]
OpenComment == [t |-> "opencomment"]

Str(segs) == [k |-> "str", v |-> segs]
Num(n) == [k |-> "num", v |-> n]
MapV(f) == [k |-> "map", v |-> f]
ListV(s) == [k |-> "list", v |-> s]
NoneV == [k |-> "none"]
Unset == [k |-> "unset"]

EmptyDict == [x \in {} |-> NoneV]

\* The concatenation of a sequence of sequences.
Flatten(ss) ==
    LET RECURSIVE flat(_)
        flat(i) == IF i > Len(ss) THEN <<>> ELSE ss[i] \o flat(i + 1)
    IN flat(1)

\* Outcome of a call: a returned value or a raised exception.
Return(v) == [raised |-> FALSE, val |-> v]
Raise(cls, msg) == [raised |-> TRUE, cls |-> cls, msg |-> msg]

\* str(value) as used by f-strings and by Jinja when it writes a value out.
PyStr(node) ==
    CASE node.k = "str" -> node.v
      [] node.k = "num" -> <<Lit(ToString(node.v))>>
      [] node.k = "none" -> <<Lit("None")>>
      [] OTHER -> <<Lit("<object>")>>

\* Words of the model in lexicographic order; sorted() of a set of words.
\* Dicts are iterated in this order too (their insertion order).
WordOrder ==
    <<"Authorization", "X-Customer", "X-Env", "X-Query", "api_key", "arg", "const", "ctx", "customer_id", "deep",
      "desired_time", "env", "error", "items", "k", "meta", "password", "profile", "q",
      "success", "tags", "time", "x", "y", "z">>

sorted(S) ==
    LET keep(w) == w \in S
        ws == SelectSeq(WordOrder, keep)
    IN [i \in 1..Len(ws) |-> Lit(ws[i])]

-----------------------------------------------------------------------------
(* template_resolver.py *)

\* PLACEHOLDER_PATTERN.findall: the placeholders {{ns.key}} in order.
PLACEHOLDER_PATTERN_findall(s) ==
    LET isPh(g) == g.t = "ph"
    IN SelectSeq(s, isPh)

TemplateValidationError == "TemplateValidationError"
TemplateRenderError == "TemplateRenderError"

\* validate_template that stops after the first placeholder.
validate_template_first_only(tpl, allowed) ==
    IF tpl.k # "str" THEN Return(NoneV)
    ELSE LET placeholders == PLACEHOLDER_PATTERN_findall(tpl.v)
         IN IF placeholders = <<>> \/ placeholders[1].ns \in allowed THEN Return(NoneV)
            ELSE Raise(TemplateValidationError,
                       <<Lit("Invalid namespace '"), Lit(placeholders[1].ns),
                         Lit("' in template. Allowed namespaces: ")>> \o sorted(allowed))

validate_template(tpl, allowed) ==
    IF tpl.k # "str" THEN Return(NoneV)
    ELSE LET placeholders == PLACEHOLDER_PATTERN_findall(tpl.v)
             bad(g) == g.ns \notin allowed
             offending == SelectSeq(placeholders, bad)
         IN IF offending = <<>> THEN Return(NoneV)
            ELSE Raise(TemplateValidationError,
                       <<Lit("Invalid namespace '"), Lit(offending[1].ns),
                         Lit("' in template. Allowed namespaces: ")>> \o sorted(allowed))

extract_namespaces(tpl) ==
    IF tpl.k # "str" THEN EmptyDict
    ELSE LET placeholders == PLACEHOLDER_PATTERN_findall(tpl.v)
             P == {placeholders[i] : i \in 1..Len(placeholders)}
         IN [ns \in {g.ns : g \in P} |-> {g.key : g \in {h \in P : h.ns = ns}}]

\* Attribute names of a Python dict that the model's keys can collide with.
DictAttrs == {"items", "keys", "get", "values"}

\* Jinja's Environment.getattr(obj, key) for a dict obj: Python getattr
\* first, then obj[key], else an undefined.
UndefinedV == [k |-> "undefined"]

jinja_getattr(obj, key) ==
    IF key \in DictAttrs
    THEN Str(<<Lit("<built-in method "), Lit(key), Lit(" of dict object>")>>)
    ELSE IF key \in DOMAIN obj.v THEN obj.v[key]
    ELSE UndefinedV

\* `x or {}`
OrEmpty(m) == IF m.k = "none" THEN MapV(EmptyDict) ELSE m

\* The value of the expression ns.key.
jinja_lookup(g, template_context) ==
    IF g.ns \notin DOMAIN template_context THEN UndefinedV
    ELSE jinja_getattr(template_context[g.ns], g.key)

\* str.lower() on the letters of the model's values.
lower(segs) ==
    [i \in 1..Len(segs) |->
        IF segs[i] = Lit("A") THEN Lit("a")
        ELSE IF segs[i] = Lit("B") THEN Lit("b")
        ELSE segs[i]]

\* The value Jinja writes for one segment under StrictUndefined.
jinja_segment(g, template_context) ==
    LET v == IF g.t \in {"ph", "filter", "path", "if"}
             THEN jinja_lookup(g, template_context)
             ELSE UndefinedV
    IN CASE g.t = "lit" -> Str(<<g>>)
         [] g.t = "ph" -> v
         [] g.t = "expr" -> Str(<<Lit("49")>>)
         [] g.t = "comment" -> Str(<<>>)
         [] g.t = "filter" ->
               IF v = UndefinedV THEN UndefinedV ELSE Str(lower(PyStr(v)))
         [] g.t = "path" ->
               IF v = UndefinedV THEN UndefinedV
               ELSE IF v.k = "str"
               THEN Str(<<Lit("<built-in method upper of str object>")>>)
               ELSE UndefinedV
         [] g.t = "if" ->
               IF v = UndefinedV THEN UndefinedV
               ELSE IF v.k = "str" /\ v.v = <<>> THEN Str(<<>>)
               ELSE Str(<<Lit("on")>>)
         [] OTHER -> UndefinedV

RECURSIVE jinja_concat(_, _)
jinja_concat(s, template_context) ==
    IF s = <<>> THEN <<>>
    ELSE PyStr(jinja_segment(Head(s), template_context))
           \o jinja_concat(Tail(s), template_context)

\* A renderer that scans its own output for placeholders once more.
render_template_rescans(tpl, c, x, a) ==
    IF tpl.k # "str" THEN Return(tpl)
    ELSE LET s == IF tpl.v # <<>> /\ tpl.v[Len(tpl.v)] = Lit("\n")
                  THEN SubSeq(tpl.v, 1, Len(tpl.v) - 1)
                  ELSE tpl.v
             syntaxError == \E i \in 1..Len(s) : s[i].t \in {"open", "openblock", "opencomment"}
             template_context == [const |-> OrEmpty(c), ctx |-> OrEmpty(x), arg |-> OrEmpty(a)]
             undefined == \E i \in 1..Len(s) :
                             jinja_segment(s[i], template_context) = UndefinedV
             first == jinja_concat(s, template_context)
         IN IF syntaxError
            THEN Raise(TemplateRenderError, <<Lit("Failed to render template: "), Lit("unexpected end of template")>>)
            ELSE IF undefined
            THEN Raise(TemplateRenderError, <<Lit("Failed to render template: "), Lit("undefined")>>)
            ELSE IF \E i \in 1..Len(first) :
                        jinja_segment(first[i], template_context) = UndefinedV
            THEN Raise(TemplateRenderError, <<Lit("Failed to render template: "), Lit("undefined")>>)
            ELSE Return(Str(jinja_concat(first, template_context)))

render_template(tpl, c, x, a) ==
    IF tpl.k # "str" THEN Return(tpl)
    ELSE LET \* keep_trailing_newline is off: one final newline is dropped
             s == IF tpl.v # <<>> /\ tpl.v[Len(tpl.v)] = Lit("\n")
                  THEN SubSeq(tpl.v, 1, Len(tpl.v) - 1)
                  ELSE tpl.v
             syntaxError == \E i \in 1..Len(s) : s[i].t \in {"open", "openblock", "opencomment"}
             template_context == [const |-> OrEmpty(c), ctx |-> OrEmpty(x), arg |-> OrEmpty(a)]
             undefined == \E i \in 1..Len(s) :
                             jinja_segment(s[i], template_context) = UndefinedV
         IN IF syntaxError
            THEN Raise(TemplateRenderError, <<Lit("Failed to render template: "), Lit("unexpected end of template")>>)
            ELSE IF undefined
            THEN Raise(TemplateRenderError, <<Lit("Failed to render template: "), Lit("undefined")>>)
            ELSE Return(Str(jinja_concat(s, template_context)))

\* Keys and values of a dict in iteration order.
keys(d) ==
    LET has(w) == w \in DOMAIN d.v
    IN SelectSeq(WordOrder, has)

values(d) == [i \in 1..Len(keys(d)) |-> d.v[keys(d)[i]]]

\* The first raised outcome of a sequence of outcomes, if any.
FirstRaised(outs) ==
    LET R == {i \in 1..Len(outs) : outs[i].raised}
    IN IF R = {} THEN Unset ELSE outs[CHOOSE i \in R : \A j \in R : i <= j]

\* The list built from the outcomes of its items, or the first exception.
list_outcome(outs) ==
    IF FirstRaised(outs) # Unset THEN FirstRaised(outs)
    ELSE Return(ListV([i \in 1..Len(outs) |-> outs[i].val]))

\* The dict built from the outcomes of its values (in the order of the keys
\* ks), or the first exception.
dict_outcome(ks, outs) ==
    IF FirstRaised(outs) # Unset THEN FirstRaised(outs)
    ELSE Return(MapV([key \in {ks[i] : i \in 1..Len(ks)} |->
                        outs[CHOOSE i \in 1..Len(ks) : ks[i] = key].val]))

RECURSIVE render_dict(_, _, _, _)
render_dict(data, c, x, a) ==
    IF data.k # "map" THEN Return(data)
    ELSE LET item(it) ==
                 IF it.k \in {"str", "map"}
                 THEN (IF it.k = "str" THEN render_template(it, c, x, a)
                       ELSE render_dict(it, c, x, a))
                 ELSE Return(it)
             value(v) ==
                 IF v.k = "list"
                 THEN list_outcome([i \in 1..Len(v.v) |-> item(v.v[i])])
                 ELSE item(v)
         IN dict_outcome(keys(data), [i \in 1..Len(keys(data)) |-> value(values(data)[i])])

\* SENSITIVE_FIELDS, and the fields that occur in key.lower() for the keys
\* of the model.
SENSITIVE_FIELDS == {"token", "secret", "key", "password", "auth", "api_key", "access_token"}

FieldsIn(key) ==
    CASE key = "api_key" -> {"key", "api_key"}
      [] key = "Authorization" -> {"auth"}
      [] key = "password" -> {"password"}
      [] OTHER -> {}

MASK == Str(<<Lit("***MASKED***")>>)

RECURSIVE _mask_sensitive_data(_)
_mask_sensitive_data(d) ==
    CASE d.k = "map" ->
            MapV([key \in DOMAIN d.v |->
                    IF FieldsIn(key) \cap SENSITIVE_FIELDS # {} THEN MASK
                    ELSE _mask_sensitive_data(d.v[key])])
      [] d.k = "list" ->
            ListV([i \in 1..Len(d.v) |-> _mask_sensitive_data(d.v[i])])
      [] OTHER -> d

\* The debug entry: the template, the result and the masked context, as the
\* f-string interpolates them.
_log_template_render(tpl, template_context, res) ==
    [template |-> tpl.v,
     result |-> res.v,
     context |-> _mask_sensitive_data(MapV(template_context))]

\* What one render_template call writes to the log.
render_template_log(tpl, c, x, a) ==
    LET out == render_template(tpl, c, x, a)
        template_context == [const |-> OrEmpty(c), ctx |-> OrEmpty(x), arg |-> OrEmpty(a)]
    IN IF tpl.k # "str" \/ out.raised THEN <<>>
       ELSE <<_log_template_render(tpl, template_context, out.val)>>

\* The strings render_dict hands to render_template, in call order.
RECURSIVE render_dict_calls(_)
render_dict_calls(d) ==
    IF d.k # "map" THEN <<>>
    ELSE LET item(it) ==
                 IF it.k = "str" THEN <<it>>
                 ELSE IF it.k = "map" THEN render_dict_calls(it)
                 ELSE <<>>
             value(v) ==
                 IF v.k = "str" THEN <<v>>
                 ELSE IF v.k = "map" THEN render_dict_calls(v)
                 ELSE IF v.k = "list" THEN Flatten([i \in 1..Len(v.v) |-> item(v.v[i])])
                 ELSE <<>>
             vs == values(d)
         IN Flatten([i \in 1..Len(vs) |-> value(vs[i])])

\* What one render_dict call writes to the log: one entry per string
\* rendered before the first failure.
render_dict_log(d, c, x, a) ==
    LET calls == render_dict_calls(d)
        outs == [i \in 1..Len(calls) |-> render_template(calls[i], c, x, a)]
        R == {i \in 1..Len(calls) : outs[i].raised}
        n == IF R = {} THEN Len(calls) ELSE (CHOOSE i \in R : \A j \in R : i <= j) - 1
    IN Flatten([i \in 1..n |-> render_template_log(calls[i], c, x, a)])

-----------------------------------------------------------------------------
(* webhook_tool_builder.py: build time *)

WebhookConfigError == "WebhookConfigError"

\* str.upper() on the method names of the model.
upper(m) ==
    CASE m = "get" -> "GET"
      [] m = "post" -> "POST"
      [] m = "fetch" -> "FETCH"
      [] OTHER -> m

\* _extract_dict_strings that does not descend into lists.
RECURSIVE _extract_dict_strings_no_lists(_)
_extract_dict_strings_no_lists(data) ==
    CASE data.k = "map" ->
            LET vs == values(data)
            IN Flatten([i \in 1..Len(vs) |-> _extract_dict_strings_no_lists(vs[i])])
      [] data.k = "str" -> <<data>>
      [] OTHER -> <<>>

RECURSIVE _extract_dict_strings(_)
_extract_dict_strings(data) ==
    CASE data.k = "map" ->
            LET vs == values(data)
            IN Flatten([i \in 1..Len(vs) |-> _extract_dict_strings(vs[i])])
      [] data.k = "list" ->
            Flatten([i \in 1..Len(data.v) |-> _extract_dict_strings(data.v[i])])
      [] data.k = "str" -> <<data>>
      [] OTHER -> <<>>

\* `if x:` for the values the builder tests.
Truthy(x) ==
    CASE x.k = "none" -> FALSE
      [] x.k = "str" -> x.v # <<>>
      [] x.k = "map" -> DOMAIN x.v # {}
      [] x.k = "list" -> x.v # <<>>
      [] OTHER -> TRUE

ToolMsg(cfg, rest) == <<Lit("Tool "), Lit(cfg.name)>> \o rest

\* _validate_config that compares the constants with the first LLM variable only.
_validate_config_first_var(cfg) ==
    LET spec == cfg.api_spec
        all_templates ==
            <<spec.url>> \o values(spec.headers) \o values(spec.query)
              \o (IF spec.body.k = "str" THEN <<spec.body>>
                  ELSE IF spec.body.k = "map" THEN _extract_dict_strings(spec.body)
                  ELSE <<>>)
        checks == [i \in 1..Len(all_templates) |->
                      validate_template(all_templates[i], {"const", "ctx", "arg"})]
        const_keys == IF Truthy(cfg.consts) THEN DOMAIN cfg.consts.v ELSE {}
        llm_var_names == {spec.llm_vars[i].name : i \in 1..Len(spec.llm_vars) \cap {1}}
        const_llm_overlap == const_keys \cap llm_var_names
    IN IF ~Truthy(spec.url)
       THEN Raise(WebhookConfigError, ToolMsg(cfg, <<Lit(": URL is required")>>))
       ELSE IF upper(spec.method) \notin {"GET", "POST", "PUT", "PATCH", "DELETE"}
       THEN Raise(WebhookConfigError,
                  ToolMsg(cfg, <<Lit(": Invalid HTTP method "), Lit(spec.method)>>))
       ELSE IF FirstRaised(checks) # Unset
       THEN Raise(WebhookConfigError, ToolMsg(cfg, <<Lit(": ")>> \o FirstRaised(checks).msg))
       ELSE IF const_llm_overlap # {}
       THEN Raise(WebhookConfigError,
                  ToolMsg(cfg, <<Lit(": Overlap between consts and llm_vars: ")>>
                                 \o sorted(const_llm_overlap)))
       ELSE Return(NoneV)

\* _validate_config that checks the method after the templates.
_validate_config_method_after_templates(cfg) ==
    LET spec == cfg.api_spec
        all_templates ==
            <<spec.url>> \o values(spec.headers) \o values(spec.query)
              \o (IF spec.body.k = "str" THEN <<spec.body>>
                  ELSE IF spec.body.k = "map" THEN _extract_dict_strings(spec.body)
                  ELSE <<>>)
        checks == [i \in 1..Len(all_templates) |->
                      validate_template(all_templates[i], {"const", "ctx", "arg"})]
        const_keys == IF Truthy(cfg.consts) THEN DOMAIN cfg.consts.v ELSE {}
        llm_var_names == {spec.llm_vars[i].name : i \in 1..Len(spec.llm_vars)}
        const_llm_overlap == const_keys \cap llm_var_names
    IN IF ~Truthy(spec.url)
       THEN Raise(WebhookConfigError, ToolMsg(cfg, <<Lit(": URL is required")>>))
       ELSE IF FirstRaised(checks) # Unset
       THEN Raise(WebhookConfigError, ToolMsg(cfg, <<Lit(": ")>> \o FirstRaised(checks).msg))
       ELSE IF upper(spec.method) \notin {"GET", "POST", "PUT", "PATCH", "DELETE"}
       THEN Raise(WebhookConfigError,
                  ToolMsg(cfg, <<Lit(": Invalid HTTP method "), Lit(spec.method)>>))
       ELSE IF const_llm_overlap # {}
       THEN Raise(WebhookConfigError,
                  ToolMsg(cfg, <<Lit(": Overlap between consts and llm_vars: ")>>
                                 \o sorted(const_llm_overlap)))
       ELSE Return(NoneV)

_validate_config(cfg) ==
    LET spec == cfg.api_spec
        all_templates ==
            <<spec.url>> \o values(spec.headers) \o values(spec.query)
              \o (IF spec.body.k = "str" THEN <<spec.body>>
                  ELSE IF spec.body.k = "map" THEN _extract_dict_strings(spec.body)
                  ELSE <<>>)
        checks == [i \in 1..Len(all_templates) |->
                      validate_template(all_templates[i], {"const", "ctx", "arg"})]
        const_keys == IF Truthy(cfg.consts) THEN DOMAIN cfg.consts.v ELSE {}
        llm_var_names == {spec.llm_vars[i].name : i \in 1..Len(spec.llm_vars)}
        const_llm_overlap == const_keys \cap llm_var_names
    IN IF ~Truthy(spec.url)
       THEN Raise(WebhookConfigError, ToolMsg(cfg, <<Lit(": URL is required")>>))
       ELSE IF upper(spec.method) \notin {"GET", "POST", "PUT", "PATCH", "DELETE"}
       THEN Raise(WebhookConfigError,
                  ToolMsg(cfg, <<Lit(": Invalid HTTP method "), Lit(spec.method)>>))
       ELSE IF FirstRaised(checks) # Unset
       THEN Raise(WebhookConfigError, ToolMsg(cfg, <<Lit(": ")>> \o FirstRaised(checks).msg))
       ELSE IF const_llm_overlap # {}
       THEN Raise(WebhookConfigError,
                  ToolMsg(cfg, <<Lit(": Overlap between consts and llm_vars: ")>>
                                 \o sorted(const_llm_overlap)))
       ELSE Return(NoneV)

\* ", ".join(names)
JoinNames(vs) ==
    LET RECURSIVE join(_)
        join(i) == IF i > Len(vs) THEN <<>>
                   ELSE (IF i > 1 THEN <<Lit(", ")>> ELSE <<>>) \o <<Lit(vs[i].name)>> \o join(i + 1)
    IN join(1)

_generate_description_with_params(cfg) ==
    LET spec == cfg.api_spec
    IN <<Lit("Call "), Lit(spec.method), Lit(" ")>> \o spec.url.v
         \o (IF spec.llm_vars # <<>>
             THEN <<Lit(" with parameters: ")>> \o JoinNames(spec.llm_vars)
             ELSE <<>>)

\* _generate_usage_instructions that also lists the headers as they will be
\* sent, rendered with the constants.
_generate_usage_instructions_with_headers(cfg) ==
    LET spec == cfg.api_spec
        line(var) == <<Lit("\n  - "), Lit(var.name),
                       Lit(IF var.required THEN " (required): " ELSE " (optional): ")>>
                       \o var.description
        hs == values(spec.headers)
        header(h) == LET out == render_template(h, cfg.consts, NoneV, NoneV)
                     IN IF out.raised THEN <<>> ELSE <<Lit("\n  header: ")>> \o out.val.v
    IN <<Lit("Use this tool to call "), Lit(spec.method), Lit(" ")>> \o spec.url.v \o <<Lit(".")>>
         \o (IF spec.llm_vars # <<>>
             THEN <<Lit("\nRequired parameters:")>>
                    \o Flatten([i \in 1..Len(spec.llm_vars) |-> line(spec.llm_vars[i])])
             ELSE <<>>)
         \o Flatten([i \in 1..Len(hs) |-> header(hs[i])])

_generate_usage_instructions(cfg) ==
    LET spec == cfg.api_spec
        line(var) == <<Lit("\n  - "), Lit(var.name),
                       Lit(IF var.required THEN " (required): " ELSE " (optional): ")>>
                       \o var.description
    IN <<Lit("Use this tool to call "), Lit(spec.method), Lit(" ")>> \o spec.url.v \o <<Lit(".")>>
         \o (IF spec.llm_vars # <<>>
             THEN <<Lit("\nRequired parameters:")>>
                    \o Flatten([i \in 1..Len(spec.llm_vars) |-> line(spec.llm_vars[i])])
             ELSE <<>>)

\* The signature of `async def webhook_function(ctx: RunContext, **kwargs)`,
\* which is all ToolHolder and function_tool receive about the parameters:
\* no named parameter besides the run context, and a **kwargs that takes
\* any keyword.
webhook_function ==
    [name |-> "webhook_function", parameters |-> <<>>, var_keyword |-> TRUE]

\* build_webhook_tool without the check of the tool's type.
build_webhook_tool_any_type(cfg) ==
    IF cfg.api_spec = NoneV
    THEN Raise(WebhookConfigError,
               <<Lit("Webhook tool "), Lit(cfg.name), Lit(" missing api_spec")>>)
    ELSE IF _validate_config(cfg).raised THEN _validate_config(cfg)
    ELSE Return([fnc |-> webhook_function,
                 name |-> cfg.name,
                 description |-> _generate_description_with_params(cfg),
                 usage_instructions_llm |-> _generate_usage_instructions(cfg)])

build_webhook_tool(cfg) ==
    IF cfg.type # "webhook"
    THEN Raise(WebhookConfigError, ToolMsg(cfg, <<Lit(" is not a webhook tool")>>))
    ELSE IF cfg.api_spec = NoneV
    THEN Raise(WebhookConfigError,
               <<Lit("Webhook tool "), Lit(cfg.name), Lit(" missing api_spec")>>)
    ELSE IF _validate_config(cfg).raised THEN _validate_config(cfg)
    ELSE Return([fnc |-> webhook_function,
                 name |-> cfg.name,
                 description |-> _generate_description_with_params(cfg),
                 usage_instructions_llm |-> _generate_usage_instructions(cfg)])

-----------------------------------------------------------------------------
(* webhook_tool_builder.py: run time *)

Absent == [k |-> "absent"]      \* hasattr(...) is false
ObjV == [k |-> "object"]        \* a userdata object that is not a mapping

\* dict.update: the keys of b win.
Update(a, b) ==
    MapV([key \in DOMAIN a.v \cup DOMAIN b.v |->
             IF key \in DOMAIN b.v THEN b.v[key] ELSE a.v[key]])

_build_runtime_context(rc) ==
    LET first ==
            IF rc.userdata # Absent /\ Truthy(rc.userdata)
            THEN (IF rc.userdata.k = "map" THEN Return(Update(MapV(EmptyDict), rc.userdata))
                  ELSE Raise("TypeError", <<Lit("object is not iterable")>>))
            ELSE Return(MapV(EmptyDict))
    IN IF first.raised THEN first
       ELSE IF rc.session # Absent /\ Truthy(rc.session) /\ rc.session.userdata # Absent
       THEN LET more == IF Truthy(rc.session.userdata) THEN rc.session.userdata
                        ELSE MapV(EmptyDict)
            IN IF more.k = "map" THEN Return(Update(first.val, more))
               ELSE Raise("TypeError", <<Lit("object is not iterable")>>)
       ELSE first

\* Literal pieces of the model that begin with "{" or "[".
BracePieces == {"{\"", "[]", "{oops"}

\* body.strip().startswith(('{', '['))
LooksLikeJson(s) ==
    /\ s # <<>>
    /\ \/ s[1].t \in {"ph", "open"}
       \/ s[1].t = "lit" /\ s[1].s \in BracePieces

\* json.loads on the JSON texts of the model: {"<key>": "<text>"} and [].
json_loads(s) ==
    IF /\ Len(s) >= 4
       /\ s[1] = Lit("{\"") /\ s[2].t = "lit" /\ s[3] = Lit("\": \"")
       /\ s[Len(s)] = Lit("\"}")
    THEN Return(MapV(s[2].s :> Str(SubSeq(s, 4, Len(s) - 1))))
    ELSE IF s = <<Lit("[]")>> THEN Return(ListV(<<>>))
    ELSE Raise("JSONDecodeError", <<Lit("Expecting value")>>)

\* _execute_webhook, lines 187-196: a rendered string body that looks like
\* JSON is parsed, and kept as a string when parsing fails.
parse_body(b) ==
    IF b.raised THEN b
    ELSE IF LooksLikeJson(b.val.v) /\ ~json_loads(b.val.v).raised
    THEN json_loads(b.val.v)
    ELSE b

\* _execute_webhook, lines 198-215: the httpx call made with the rendered
\* parts, or the first exception raised while rendering them.
httpx_call(method, url, headers, query, body) ==
    IF url.raised THEN url
    ELSE IF headers.raised THEN headers
    ELSE IF query.raised THEN query
    ELSE IF body.raised THEN body
    ELSE IF upper(method) = "GET"
    THEN Return([method |-> "GET", url |-> url.val, headers |-> headers.val,
                 params |-> query.val, json |-> NoneV, content |-> NoneV])
    ELSE Return([method |-> upper(method), url |-> url.val,
                 headers |-> headers.val, params |-> query.val,
                 json |-> IF body.val.k \in {"map", "list"} THEN body.val ELSE NoneV,
                 content |-> IF body.val.k = "str" THEN body.val ELSE NoneV])

\* _execute_webhook, lines 172-196, with the contexts assembled.
render_request(spec, const_ctx, runtime_ctx, args) ==
    httpx_call(spec.method,
               render_template(spec.url, const_ctx, runtime_ctx, args),
               render_dict(spec.headers, const_ctx, runtime_ctx, args),
               render_dict(spec.query, const_ctx, runtime_ctx, args),
               IF spec.body = NoneV THEN Return(NoneV)
               ELSE IF spec.body.k = "str"
               THEN parse_body(render_template(spec.body, const_ctx, runtime_ctx, args))
               ELSE render_dict(spec.body, const_ctx, runtime_ctx, args))

\* _execute_webhook, lines 172-215: contexts, rendering, and the httpx call
\* that is made.  Returns the call, or the exception raised before it.
_execute_webhook_request(cfg, rc, args) ==
    IF _build_runtime_context(rc).raised THEN _build_runtime_context(rc)
    ELSE render_request(cfg.api_spec, OrEmpty(cfg.consts), _build_runtime_context(rc).val, args)

\* What httpx does with the call: a response, or an exception.
HttpResponse(status, text) == [kind |-> "response", status_code |-> status, text |-> text]
HttpError(cls) == [kind |-> "exception", cls |-> cls]

\* httpx.RequestError and its subclasses.
RequestErrors == {"ConnectError", "ReadTimeout", "RequestError"}

\* Response handling that treats only 4xx and 5xx statuses as errors.
_execute_webhook_response_4xx_5xx(resp) ==
    IF resp.kind = "exception"
    THEN Raise(resp.cls, <<Lit(resp.cls)>>)
    ELSE IF resp.status_code \in 400..599
    THEN [raised |-> TRUE, cls |-> "HTTPStatusError",
          msg |-> <<Lit("status error")>>, response |-> resp]
    ELSE IF json_loads(resp.text).raised THEN Return(Str(resp.text))
    ELSE json_loads(resp.text)

\* _execute_webhook, lines 217-228: raise_for_status, then json() or text.
_execute_webhook_response(resp) ==
    IF resp.kind = "exception"
    THEN Raise(resp.cls, <<Lit(resp.cls)>>)
    ELSE IF resp.status_code \notin 200..299
    THEN [raised |-> TRUE, cls |-> "HTTPStatusError",
          msg |-> <<Lit("status error")>>, response |-> resp]
    ELSE IF json_loads(resp.text).raised THEN Return(Str(resp.text))
    ELSE json_loads(resp.text)

ErrorResult(msg) == MapV("error" :> Str(msg))

\* The except clauses without the final `except Exception`.
_execute_webhook_except_no_catch_all(out) ==
    IF ~out.raised THEN out
    ELSE CASE out.cls = TemplateRenderError ->
                Return(ErrorResult(<<Lit("Template rendering failed: ")>> \o out.msg))
           [] out.cls = "HTTPStatusError" ->
                Return(ErrorResult(<<Lit("HTTP "), Lit(ToString(out.response.status_code)),
                                     Lit(": ")>> \o out.response.text))
           [] out.cls \in RequestErrors ->
                Return(ErrorResult(<<Lit("Request failed: ")>> \o out.msg))
           [] OTHER -> out

\* The except clauses with `except Exception` placed before RequestError.
_execute_webhook_except_reordered(out) ==
    IF ~out.raised THEN out
    ELSE CASE out.cls = TemplateRenderError ->
                Return(ErrorResult(<<Lit("Template rendering failed: ")>> \o out.msg))
           [] out.cls = "HTTPStatusError" ->
                Return(ErrorResult(<<Lit("HTTP "), Lit(ToString(out.response.status_code)),
                                     Lit(": ")>> \o out.response.text))
           [] OTHER ->
                Return(ErrorResult(<<Lit("Unexpected error: ")>> \o out.msg))

\* _execute_webhook, lines 230-248: the except clauses, in order.
_execute_webhook_except(out) ==
    IF ~out.raised THEN out
    ELSE CASE out.cls = TemplateRenderError ->
                Return(ErrorResult(<<Lit("Template rendering failed: ")>> \o out.msg))
           [] out.cls = "HTTPStatusError" ->
                Return(ErrorResult(<<Lit("HTTP "), Lit(ToString(out.response.status_code)),
                                     Lit(": ")>> \o out.response.text))
           [] out.cls \in RequestErrors ->
                Return(ErrorResult(<<Lit("Request failed: ")>> \o out.msg))
           [] OTHER ->
                Return(ErrorResult(<<Lit("Unexpected error: ")>> \o out.msg))

-----------------------------------------------------------------------------
(* Inputs of the builder specification *)

MaxInvocations == 2

T(s) == Str(s)
UrlBook == T(<<Lit("https://api.example.com/book")>>)

Urls ==
    { UrlBook,
      T(<<Lit("https://api.example.com/find/"), Ph("arg", "q")>>),
      T(<<Lit("https://api.example.com/"), Ph("env", "k")>>),
      T(<<>>) }

Methods == {"POST", "get", "FETCH"}

HeaderSets ==
    { MapV(EmptyDict),
      MapV("Authorization" :> T(<<Lit("Bearer "), Ph("const", "api_key")>>)),
      MapV("X-Env" :> T(<<Ph("env", "k")>>)) }

QuerySets == { MapV(EmptyDict), MapV("q" :> T(<<Ph("arg", "q")>>)) }

Bodies ==
    { NoneV,
      T(<<Lit("{\""), Lit("time"), Lit("\": \""), Ph("arg", "desired_time"), Lit("\"}")>>),
      T(<<Lit("{oops"), Ph("ctx", "customer_id")>>),
      MapV("time" :> T(<<Ph("arg", "desired_time")>>)),
      MapV(("time" :> T(<<Ph("arg", "desired_time")>>))
           @@ ("tags" :> ListV(<<T(<<Ph("ctx", "customer_id")>>),
                                 ListV(<<T(<<Ph("arg", "q")>>)>>),
                                 Num(7)>>))),
      MapV("meta" :> MapV("tags" :> ListV(<<ListV(<<MapV("deep" :> T(<<Ph("env", "k")>>))>>)>>))) }

ConstSets ==
    { NoneV,
      MapV("api_key" :> T(<<Lit("XYZ")>>)),
      MapV(("api_key" :> T(<<Lit("XYZ")>>)) @@ ("q" :> Num(1))
           @@ ("desired_time" :> T(<<Lit("noon")>>))) }

LLMVar(n) ==
    [name |-> n, description |-> <<Lit("text")>>, schema |-> "string", required |-> TRUE]

LLMVarLists ==
    { <<>>, <<LLMVar("desired_time")>>, <<LLMVar("desired_time"), LLMVar("q")>> }

ApiSpecs ==
    { [url |-> u, method |-> m, headers |-> h, query |-> q, body |-> b, llm_vars |-> l] :
        u \in Urls, m \in Methods, h \in HeaderSets, q \in QuerySets, b \in Bodies,
        l \in LLMVarLists }

Description == Str(<<Lit("A test webhook tool")>>)

ToolConfigs ==
    { [name |-> "bookSlot", description |-> NoneV, type |-> "webhook",
       consts |-> c, api_spec |-> s] :
        c \in ConstSets, s \in ApiSpecs }
    \cup { [name |-> "bookSlot", description |-> Description, type |-> "webhook",
             consts |-> NoneV, api_spec |-> s] :
             s \in { a \in ApiSpecs : a.url = UrlBook /\ a.headers = MapV(EmptyDict)
                                      /\ a.query = MapV(EmptyDict) /\ a.body = NoneV } }
    \cup { [name |-> "bookSlot", description |-> NoneV, type |-> t,
             consts |-> NoneV, api_spec |-> NoneV] :
             t \in {"webhook", "default"} }
    \cup { [name |-> "bookSlot", description |-> NoneV, type |-> "default",
             consts |-> NoneV, api_spec |-> s] :
             s \in { a \in ApiSpecs : a.url = UrlBook /\ a.method = "POST"
                                      /\ a.query = MapV(EmptyDict) /\ a.llm_vars = <<>>
                                      /\ a.body = NoneV } }

RunContexts ==
    { [userdata |-> MapV("customer_id" :> T(<<Lit("cust123")>>)), session |-> Absent],
      [userdata |-> NoneV, session |-> NoneV],
      [userdata |-> ObjV, session |-> NoneV],
      [userdata |-> MapV("customer_id" :> T(<<Lit("cust123")>>)),
       session |-> [k |-> "session",
                    userdata |-> MapV("customer_id" :> T(<<Lit("cust9")>>))]] }

LLMArgs ==
    { MapV(EmptyDict),
      MapV("desired_time" :> T(<<Lit("3pm")>>)),
      MapV(("desired_time" :> T(<<Lit("3pm")>>)) @@ ("q" :> T(<<Lit("shoes")>>))) }

Statuses == {199, 200, 299, 300, 500}

ResponseTexts ==
    { <<Lit("{\""), Lit("success"), Lit("\": \""), Lit("yes"), Lit("\"}")>>,
      <<Lit("OK")>> }

HttpOutcomes ==
    { HttpResponse(s, t) : s \in Statuses, t \in ResponseTexts }
    \cup { HttpError(c) : c \in {"ConnectError", "ReadTimeout", "InvalidURL"} }

AgentIdle == agent_args = Unset /\ agent_config = Unset /\ lookup = Unset

DetachedIdle ==
    /\ ff_holder = Unset /\ tasks = <<>> /\ acks = <<>> /\ task_log = <<>>
    /\ session_ended = FALSE

SharedIdle == builder = Unset /\ builds = <<>> /\ inflight = <<>> /\ userdata = Unset

OthersIdle == AgentIdle /\ DetachedIdle /\ SharedIdle

ResolverIdle ==
    /\ template = Unset /\ const = NoneV /\ ctx = NoneV /\ arg = NoneV
    /\ dict_data = Unset /\ log = <<>>
    /\ allowed_namespaces = {}
    /\ rendered = Unset /\ validated = Unset /\ namespaces = Unset

Init ==
    /\ config \in ToolConfigs
    /\ tool = Unset
    /\ pc = "idle"
    /\ run_ctx = Unset /\ llm_args = Unset
    /\ request = Unset /\ response = Unset /\ result = Unset
    /\ invocations = 0 /\ sent = 0 /\ total = 0
    /\ ResolverIdle
    /\ OthersIdle

\* build_webhook_tool(config)
Build ==
    /\ tool = Unset
    /\ tool' = build_webhook_tool(config)
    /\ UNCHANGED <<config, pc, run_ctx, llm_args, request, response, result,
                   invocations, sent, total>>
    /\ UNCHANGED rvars
    /\ UNCHANGED <<avars, dvars, svars>>

\* tool_holder.fnc(ctx, **kwargs): _execute_webhook up to its await.
Invoke ==
    /\ tool # Unset /\ ~tool.raised
    /\ pc = "idle"
    /\ invocations < MaxInvocations
    /\ \E rc \in RunContexts, args \in LLMArgs :
         \E call \in {_execute_webhook_request(config, rc, args)} :
            /\ run_ctx' = rc
            /\ llm_args' = args
            /\ invocations' = invocations + 1
            /\ response' = Unset
            /\ IF call.raised
               THEN /\ request' = Unset
                    /\ sent' = 0
                    /\ total' = total
                    /\ result' = _execute_webhook_except(call)
                    /\ pc' = "idle"
               ELSE /\ request' = call.val
                    /\ sent' = 1
                    /\ total' = total + 1
                    /\ result' = Unset
                    /\ pc' = "waiting"
    /\ UNCHANGED <<config, tool>>
    /\ UNCHANGED rvars
    /\ UNCHANGED <<avars, dvars, svars>>

\* A completion that issues the request again after a failed attempt.
RespondWithRetry ==
    /\ pc = "waiting"
    /\ \E r \in HttpOutcomes :
         /\ response' = r
         /\ IF _execute_webhook_response(r).raised /\ sent < 2
            THEN /\ sent' = sent + 1
                 /\ total' = total + 1
                 /\ result' = result
                 /\ pc' = "waiting"
            ELSE /\ sent' = sent
                 /\ total' = total
                 /\ result' = _execute_webhook_except(_execute_webhook_response(r))
                 /\ pc' = "idle"
    /\ UNCHANGED <<config, tool, run_ctx, llm_args, request, invocations>>
    /\ UNCHANGED rvars
    /\ UNCHANGED <<avars, dvars, svars>>

\* The awaited httpx call completes; _execute_webhook returns.
Respond ==
    /\ pc = "waiting"
    /\ \E r \in HttpOutcomes :
         /\ response' = r
         /\ result' = _execute_webhook_except(_execute_webhook_response(r))
    /\ pc' = "idle"
    /\ UNCHANGED <<config, tool, run_ctx, llm_args, request, invocations, sent, total>>
    /\ UNCHANGED rvars
    /\ UNCHANGED <<avars, dvars, svars>>

Next == Build \/ Invoke \/ Respond

Spec == Init /\ [][Next]_vars

-----------------------------------------------------------------------------
(* Inputs of the resolver specifications *)

MaxSegs == 2

Namespaces == {"const", "ctx", "arg"}
RKeys == {"k", "items"}
RValues == {Str(<<Lit("A")>>), Str(<<Lit("B")>>)}
SegAlphabet ==
    {Lit("Bearer "), Open} \cup {Ph(ns, key) : ns \in Namespaces \cup {"env"}, key \in RKeys}

Strings(n) == UNION {[1..m -> SegAlphabet] : m \in 0..n}
Templates == {Str(s) : s \in Strings(MaxSegs)} \cup {Num(7)}
Dicts == {MapV(f) : f \in UNION {[D -> RValues] : D \in SUBSET RKeys}}
AllowedSets == {Namespaces, {"const", "arg"}, {}}

ExecIdle ==
    /\ config = Unset /\ tool = Unset /\ pc = "idle"
    /\ run_ctx = Unset /\ llm_args = Unset
    /\ request = Unset /\ response = Unset /\ result = Unset
    /\ invocations = 0 /\ sent = 0 /\ total = 0

RenderIdle ==
    /\ allowed_namespaces = {}
    /\ dict_data = Unset
    /\ validated = Unset
    /\ namespaces = Unset
    /\ ExecIdle
    /\ OthersIdle

ValidateIdle ==
    /\ const = NoneV /\ ctx = NoneV /\ arg = NoneV
    /\ dict_data = Unset /\ log = <<>>
    /\ rendered = Unset
    /\ ExecIdle
    /\ OthersIdle

InitRender ==
    /\ template \in Templates
    /\ const \in Dicts
    /\ ctx \in Dicts
    /\ arg \in Dicts
    /\ rendered = Unset
    /\ log = <<>>
    /\ RenderIdle

Render ==
    /\ rendered = Unset
    /\ rendered' = render_template(template, const, ctx, arg)
    /\ log' = render_template_log(template, const, ctx, arg)
    /\ UNCHANGED <<template, const, ctx, arg, allowed_namespaces, validated, namespaces, dict_data>>
    /\ UNCHANGED xvars
    /\ UNCHANGED <<avars, dvars, svars>>

SpecRender == InitRender /\ [][Render]_vars

InitValidate ==
    /\ template \in Templates
    /\ allowed_namespaces \in AllowedSets
    /\ validated = Unset
    /\ namespaces = Unset
    /\ ValidateIdle

Validate ==
    /\ validated = Unset
    /\ validated' = validate_template(template, allowed_namespaces)
    /\ UNCHANGED <<template, const, ctx, arg, allowed_namespaces, rendered, namespaces,
                   dict_data, log>>
    /\ UNCHANGED xvars
    /\ UNCHANGED <<avars, dvars, svars>>

Extract ==
    /\ namespaces = Unset
    /\ namespaces' = Return(extract_namespaces(template))
    /\ UNCHANGED <<template, const, ctx, arg, allowed_namespaces, rendered, validated,
                   dict_data, log>>
    /\ UNCHANGED xvars
    /\ UNCHANGED <<avars, dvars, svars>>

SpecValidate == InitValidate /\ [][Validate \/ Extract]_vars

\* Templates with the Jinja constructs PLACEHOLDER_PATTERN does not match,
\* rendered directly and built into a tool as the value of one header.
ConstructAlphabet ==
    { Lit("Bearer "), Lit("{"), Lit("\n"), Ph("const", "k"),
      Expr, Filter("const", "k"), Path("const", "k"), IfBlock("const", "k"),
      Comment, OpenBlock, OpenComment }

ConstructTemplates == {Str(s) : s \in UNION {[1..m -> ConstructAlphabet] : m \in 0..MaxSegs}}

ConstructConfig(tpl) ==
    [name |-> "bookSlot", description |-> NoneV, type |-> "webhook",
     consts |-> MapV("k" :> Str(<<Lit("A")>>)),
     api_spec |-> [url |-> UrlBook, method |-> "POST",
                   headers |-> MapV("X-Env" :> tpl), query |-> MapV(EmptyDict),
                   body |-> NoneV, llm_vars |-> <<>>]]

InitConstructs ==
    /\ template \in ConstructTemplates
    /\ const \in Dicts
    /\ ctx = MapV(EmptyDict)
    /\ arg \in {MapV(EmptyDict), MapV("k" :> Str(<<Lit("B")>>))}
    /\ allowed_namespaces = {}
    /\ rendered = Unset /\ validated = Unset /\ namespaces = Unset
    /\ dict_data = Unset /\ log = <<>>
    /\ config = ConstructConfig(template)
    /\ tool = Unset /\ pc = "idle"
    /\ run_ctx = Unset /\ llm_args = Unset
    /\ request = Unset /\ response = Unset /\ result = Unset
    /\ invocations = 0 /\ sent = 0 /\ total = 0
    /\ OthersIdle

SpecConstructs == InitConstructs /\ [][Build \/ Render]_vars

\* Structures handed to render_dict.
DictLeaves == {Str(<<Ph("arg", "q")>>), Str(<<Lit("id-"), Ph("const", "k")>>), Num(7)}

Structures ==
    { MapV("x" :> l) : l \in DictLeaves }
    \cup { MapV(("x" :> l1) @@ ("y" :> MapV("z" :> l2))) : l1, l2 \in DictLeaves }
    \cup { MapV("x" :> ListV(<<l1, l2>>)) : l1, l2 \in DictLeaves }
    \cup { MapV("x" :> ListV(<<MapV("z" :> l)>>)) : l \in DictLeaves }
    \cup { MapV("x" :> ListV(<<ListV(<<l>>)>>)) : l \in DictLeaves }

InitRenderDict ==
    /\ dict_data \in Structures
    /\ const \in {MapV(EmptyDict), MapV("k" :> Str(<<Lit("K")>>))}
    /\ ctx = MapV(EmptyDict)
    /\ arg \in {MapV(EmptyDict), MapV("q" :> Str(<<Lit("Q")>>)),
                MapV("q" :> Str(<<Ph("const", "k")>>))}
    /\ template = Unset
    /\ rendered = Unset
    /\ log = <<>>
    /\ allowed_namespaces = {} /\ validated = Unset /\ namespaces = Unset
    /\ ExecIdle
    /\ OthersIdle

RenderDict ==
    /\ rendered = Unset
    /\ rendered' = render_dict(dict_data, const, ctx, arg)
    /\ log' = render_dict_log(dict_data, const, ctx, arg)
    /\ UNCHANGED <<template, const, ctx, arg, allowed_namespaces, validated, namespaces,
                   dict_data>>
    /\ UNCHANGED xvars
    /\ UNCHANGED <<avars, dvars, svars>>

SpecRenderDict == InitRenderDict /\ [][RenderDict]_vars

\* render_template calls whose namespaces hold credentials.
LogAlphabet ==
    {Lit("Bearer "), Ph("const", "api_key"), Ph("ctx", "customer_id"), Ph("arg", "q")}

LogTemplates == {Str(s) : s \in UNION {[1..m -> LogAlphabet] : m \in 0..MaxSegs}}

InitLog ==
    /\ template \in LogTemplates
    /\ const \in { MapV(EmptyDict),
                   MapV("api_key" :> Str(<<Lit("SECRET")>>)),
                   MapV(("api_key" :> Str(<<Lit("SECRET")>>))
                        @@ ("profile" :> MapV("password" :> Str(<<Lit("hunter2")>>)))) }
    /\ ctx \in { MapV("customer_id" :> Str(<<Lit("cust123")>>)),
                 MapV(("customer_id" :> Str(<<Lit("cust123")>>))
                      @@ ("tags" :> ListV(<<MapV("Authorization" :> Str(<<Lit("tok-1")>>))>>))) }
    /\ arg \in {MapV(EmptyDict), MapV("q" :> Str(<<Lit("shoes")>>))}
    /\ rendered = Unset
    /\ log = <<>>
    /\ RenderIdle

SpecLog == InitLog /\ [][Render]_vars

-----------------------------------------------------------------------------
(* Properties of the template resolver *)

NsMap(ns) == CASE ns = "const" -> const [] ns = "ctx" -> ctx [] OTHER -> arg

\* The text the placeholders of s stand for: each {{ns.key}} replaced by the
\* value bound to key in namespace ns.
RECURSIVE Substituted(_)
Substituted(s) ==
    IF s = <<>> THEN <<>>
    ELSE (IF Head(s).t = "ph" THEN PyStr(NsMap(Head(s).ns).v[Head(s).key]) ELSE <<Head(s)>>)
           \o Substituted(Tail(s))

AllBound(s) ==
    \A i \in 1..Len(s) :
        \/ s[i].t = "lit"
        \/ s[i].t = "ph" /\ s[i].ns \in Namespaces /\ s[i].key \in DOMAIN NsMap(s[i].ns).v

\* C6: rendering {{ns.key}} yields the value bound to key in namespace ns,
\* whatever the other two namespaces bind under the same key name.
C6_NamespaceIsolation ==
    (rendered # Unset /\ template.k = "str" /\ AllBound(template.v))
        => rendered = Return(Str(Substituted(template.v)))

SomeUnbound(s) ==
    \E i \in 1..Len(s) :
        \/ s[i].t = "open"
        \/ s[i].t = "ph" /\ s[i].ns \in Namespaces /\ s[i].key \notin DOMAIN NsMap(s[i].ns).v

\* C7: render_template fails with TemplateRenderError whenever a placeholder
\* names a key that is absent from its namespace map, for every key name, or
\* the placeholder syntax is malformed.
C7_StrictUndefined ==
    (rendered # Unset /\ template.k = "str" /\ SomeUnbound(template.v))
        => (rendered.raised /\ rendered.cls = TemplateRenderError)

ReferencedNamespaces(tpl) ==
    {tpl.v[i].ns : i \in {j \in 1..Len(tpl.v) : tpl.v[j].t = "ph"}}

ReferencedKeys(tpl, ns) ==
    {tpl.v[i].key : i \in {j \in 1..Len(tpl.v) : tpl.v[j].t = "ph" /\ tpl.v[j].ns = ns}}

\* C8: validate_template(t, A) succeeds exactly when every namespace that
\* extract_namespaces(t) reports is in A, and otherwise raises a
\* TemplateValidationError naming an offending namespace; extract_namespaces
\* maps each referenced namespace to exactly the keys referenced under it;
\* a non-string t validates and has no namespaces.
C8_ValidateAgreesWithExtract ==
    (validated # Unset /\ namespaces # Unset) =>
        LET found == namespaces.val
        IN /\ ~validated.raised <=> (DOMAIN found \subseteq allowed_namespaces)
           /\ validated.raised =>
                 /\ validated.cls = TemplateValidationError
                 /\ validated.msg[2].t = "lit"
                 /\ validated.msg[2].s \in (DOMAIN found) \ allowed_namespaces
           /\ template.k = "str" =>
                 /\ DOMAIN found = ReferencedNamespaces(template)
                 /\ \A ns \in DOMAIN found : found[ns] = ReferencedKeys(template, ns)
           /\ template.k # "str" => (~validated.raised /\ found = EmptyDict)

C8_Witness ==
    /\ validated # Unset /\ namespaces # Unset
    /\ validated.raised
    /\ Cardinality(DOMAIN namespaces.val) = 2
    /\ (DOMAIN namespaces.val) \cap allowed_namespaces # {}
    /\ template.v[1].ns \in allowed_namespaces

-----------------------------------------------------------------------------
(* Properties of the execution engine *)

IsErrorResult(v) == v.k = "map" /\ DOMAIN v.v = {"error"} /\ v.v["error"].k = "str"

Finished == result # Unset

\* The finished invocation met a failure: before its request, in the
\* transport, or as a non-2xx status.
FailedBeforeRequest == Finished /\ request = Unset
TransportFailed == Finished /\ response # Unset /\ response.kind = "exception"
StatusFailed ==
    Finished /\ response # Unset /\ response.kind = "response"
             /\ response.status_code \notin 200..299
Succeeded ==
    Finished /\ response # Unset /\ response.kind = "response"
             /\ response.status_code \in 200..299

RuntimeCtx == _build_runtime_context(run_ctx)

RendersField(f) ==
    IF f.k = "str" THEN ~render_template(f, OrEmpty(config.consts), RuntimeCtx.val, llm_args).raised
    ELSE ~render_dict(f, OrEmpty(config.consts), RuntimeCtx.val, llm_args).raised

AllRender ==
    /\ ~RuntimeCtx.raised
    /\ RendersField(config.api_spec.url)
    /\ RendersField(config.api_spec.headers)
    /\ RendersField(config.api_spec.query)
    /\ RendersField(config.api_spec.body)

\* C2: each invocation issues at most one request: exactly one when URL,
\* headers, query and body all render, none otherwise; a failed request is
\* not repeated, and a later invocation issues a request of its own.
C2_OneRequestPerInvocation ==
    /\ [](sent \in {0, 1})
    /\ [](invocations > 0 => (sent = 1 <=> AllRender))
    /\ [][ /\ (pc = "waiting" => (sent' = sent /\ total' = total /\ request' = request))
           /\ (invocations' = invocations + 1 =>
                  /\ total' = total + sent'
                  /\ (sent' = 1 => (request' # Unset /\ result' = Unset /\ pc' = "waiting"))) ]_vars

C2_Witness ==
    /\ invocations = 2 /\ total = 2 /\ sent = 1
    /\ (TransportFailed \/ StatusFailed)

\* C3: the returned value is the parsed body for a 2xx response whose body
\* parses as JSON, the raw text for a 2xx response whose body does not, and
\* {"error": msg} in every other case.
C3_ResultShapes ==
    Finished =>
        /\ ~result.raised
        /\ IF Succeeded
           THEN (IF json_loads(response.text).raised
                 THEN result.val = Str(response.text)
                 ELSE result.val = json_loads(response.text).val)
           ELSE IsErrorResult(result.val)

C3_Witness ==
    /\ Succeeded
    /\ response.status_code = 299
    /\ result.val = Str(<<Lit("OK")>>)

ErrorText == result.val.v["error"].v

\* C4: the error message tells the failure class: "HTTP S: <text>" for a
\* non-2xx status S, "Template rendering failed:" for a render failure,
\* "Request failed:" for a connection failure or timeout, and
\* "Unexpected error:" for anything else.
C4_ErrorClasses ==
    (Finished /\ ~Succeeded) =>
        /\ IsErrorResult(result.val)
        /\ StatusFailed =>
              ErrorText = <<Lit("HTTP "), Lit(ToString(response.status_code)), Lit(": ")>>
                            \o response.text
        /\ (FailedBeforeRequest /\ ~RuntimeCtx.raised) =>
              Head(ErrorText) = Lit("Template rendering failed: ")
        /\ (TransportFailed /\ response.cls \in {"ConnectError", "ReadTimeout"}) =>
              Head(ErrorText) = Lit("Request failed: ")
        /\ ((FailedBeforeRequest /\ RuntimeCtx.raised)
              \/ (TransportFailed /\ response.cls \notin {"ConnectError", "ReadTimeout"})) =>
              Head(ErrorText) = Lit("Unexpected error: ")

C4_Witness ==
    /\ TransportFailed
    /\ response.cls = "ReadTimeout"
    /\ Head(ErrorText) = Lit("Request failed: ")

\* Every string leaf of a structure rendered, at every depth.
RECURSIVE RenderedLeaves(_)
RenderedLeaves(node) ==
    CASE node.k = "str" ->
            render_template(node, OrEmpty(config.consts), RuntimeCtx.val, llm_args).val
      [] node.k = "map" -> MapV([key \in DOMAIN node.v |-> RenderedLeaves(node.v[key])])
      [] node.k = "list" -> ListV([i \in 1..Len(node.v) |-> RenderedLeaves(node.v[i])])
      [] OTHER -> node

RECURSIVE StringLeaves(_)
StringLeaves(node) ==
    CASE node.k = "str" -> {node}
      [] node.k = "map" -> UNION {StringLeaves(node.v[key]) : key \in DOMAIN node.v}
      [] node.k = "list" -> UNION {StringLeaves(node.v[i]) : i \in 1..Len(node.v)}
      [] OTHER -> {}

EveryLeafRenders ==
    /\ ~RuntimeCtx.raised
    /\ \A leaf \in StringLeaves(config.api_spec.url) \cup StringLeaves(config.api_spec.headers)
                   \cup StringLeaves(config.api_spec.query)
                   \cup StringLeaves(config.api_spec.body) :
          ~render_template(leaf, OrEmpty(config.consts), RuntimeCtx.val, llm_args).raised

\* C5: when every template renders, the request carries the method in upper
\* case, the rendered URL, every header and query entry rendered under its
\* key, and a nested body as JSON with every string leaf rendered.
C5_RequestAsConfigured ==
    (request # Unset /\ EveryLeafRenders) =>
        /\ request.method = upper(config.api_spec.method)
        /\ request.url = RenderedLeaves(config.api_spec.url)
        /\ request.headers = RenderedLeaves(config.api_spec.headers)
        /\ request.params = RenderedLeaves(config.api_spec.query)
        /\ config.api_spec.body.k = "map" =>
              request.json = RenderedLeaves(config.api_spec.body)

-----------------------------------------------------------------------------
(* Properties of the build-time validation *)

Built == tool # Unset /\ ~tool.raised
BuildFailed == tool # Unset /\ tool.raised

Names(msg, word) == \E i \in 1..Len(msg) : msg[i] = Lit(word)

ForeignPlaceholder(leaf) ==
    \E i \in 1..Len(leaf.v) : leaf.v[i].t = "ph" /\ leaf.v[i].ns \notin Namespaces

HasForeignPlaceholder(spec) ==
    \E leaf \in StringLeaves(spec.url) \cup StringLeaves(spec.headers)
                  \cup StringLeaves(spec.query) \cup StringLeaves(spec.body) :
        ForeignPlaceholder(leaf)

ConstKeys == IF config.consts.k = "map" THEN DOMAIN config.consts.v ELSE {}
LLMVarNames == {config.api_spec.llm_vars[i].name : i \in 1..Len(config.api_spec.llm_vars)}
Colliding == IF config.api_spec = NoneV THEN {} ELSE ConstKeys \cap LLMVarNames

\* C10 as stated: whenever a name is both a constant and an LLM variable the
\* build fails with an error naming the tool and every colliding name.
C10_OverlapErrorAlwaysNamesKeys ==
    (tool # Unset /\ Colliding # {}) =>
        /\ tool.raised
        /\ Names(tool.msg, config.name)
        /\ \A n \in Colliding : Names(tool.msg, n)

\* The checks _validate_config makes before the overlap check all pass.
EarlierChecksPass ==
    /\ config.type = "webhook"
    /\ config.api_spec # NoneV
    /\ config.api_spec.url.v # <<>>
    /\ upper(config.api_spec.method) \in {"GET", "POST", "PUT", "PATCH", "DELETE"}
    /\ ~HasForeignPlaceholder(config.api_spec)

\* C10: whenever a name is both a constant and an LLM variable the build
\* fails with a configuration error naming the tool; when the URL, method
\* and namespace checks pass, that error names every colliding name; a tool
\* that builds has disjoint constant keys and LLM-variable names.
C10_OverlapRejected ==
    /\ (tool # Unset /\ Colliding # {}) =>
          /\ tool.raised
          /\ tool.cls = WebhookConfigError
          /\ Names(tool.msg, config.name)
          /\ EarlierChecksPass =>
                /\ Names(tool.msg, ": Overlap between consts and llm_vars: ")
                /\ \A n \in Colliding : Names(tool.msg, n)
    /\ Built => Colliding = {}

C10_Witness ==
    /\ BuildFailed
    /\ EarlierChecksPass
    /\ Colliding = {"desired_time", "q"}
    /\ Names(tool.msg, "desired_time") /\ Names(tool.msg, "q")

SupportedMethods == {"GET", "POST", "PUT", "PATCH", "DELETE"}

UnsupportedMethod ==
    /\ config.type = "webhook"
    /\ config.api_spec # NoneV
    /\ upper(config.api_spec.method) \notin SupportedMethods

\* C11 as stated: building a webhook specification whose method is not one
\* of GET, POST, PUT, PATCH, DELETE (ignoring case) always fails with the
\* 'Invalid HTTP method' error naming the tool.
C11_InvalidMethodErrorAlways ==
    (tool # Unset /\ UnsupportedMethod) =>
        /\ tool.raised
        /\ Names(tool.msg, config.name)
        /\ Names(tool.msg, ": Invalid HTTP method ")

\* C11: building a webhook specification with an unsupported method fails
\* with a configuration error naming the tool; when its URL is not empty the
\* error is 'Invalid HTTP method' with the method, whatever its templates
\* and its constant and LLM-variable names are; a tool that builds has a
\* supported method.
C11_InvalidMethodRejected ==
    /\ (tool # Unset /\ UnsupportedMethod) =>
          /\ tool.raised
          /\ tool.cls = WebhookConfigError
          /\ Names(tool.msg, config.name)
          /\ config.api_spec.url.v # <<>> =>
                /\ Names(tool.msg, ": Invalid HTTP method ")
                /\ Names(tool.msg, config.api_spec.method)
                /\ ~Names(tool.msg, ": Overlap between consts and llm_vars: ")
                /\ ~Names(tool.msg, "Invalid namespace '")
    /\ Built => upper(config.api_spec.method) \in SupportedMethods

C11_Witness ==
    /\ BuildFailed
    /\ UnsupportedMethod
    /\ config.api_spec.url.v # <<>>
    /\ HasForeignPlaceholder(config.api_spec)
    /\ Colliding # {}
    /\ Names(tool.msg, ": Invalid HTTP method ")
    /\ Names(tool.msg, "FETCH")

\* C12: a tool of kind webhook without an API spec fails to build with the
\* 'missing api_spec' error; a tool of any other kind fails with the 'not a
\* webhook tool' error, with or without an API spec; neither yields a tool.
C12_KindAndApiSpecMustMatch ==
    tool # Unset =>
        /\ config.type # "webhook" =>
              /\ tool.raised
              /\ tool.cls = WebhookConfigError
              /\ tool.msg = <<Lit("Tool "), Lit(config.name), Lit(" is not a webhook tool")>>
        /\ (config.type = "webhook" /\ config.api_spec = NoneV) =>
              /\ tool.raised
              /\ tool.cls = WebhookConfigError
              /\ tool.msg = <<Lit("Webhook tool "), Lit(config.name), Lit(" missing api_spec")>>

C12_Witness ==
    /\ BuildFailed
    /\ config.type = "default"
    /\ config.api_spec # NoneV
    /\ Names(tool.msg, " is not a webhook tool")


SpecLeaves(spec) ==
    StringLeaves(spec.url) \cup StringLeaves(spec.headers)
      \cup StringLeaves(spec.query) \cup StringLeaves(spec.body)

\* The placeholders of namespace ns in the URL, headers, query and body.
PlaceholdersOf(spec, ns) ==
    UNION {{leaf.v[i] : i \in {j \in 1..Len(leaf.v) : leaf.v[j].t = "ph" /\ leaf.v[j].ns = ns}} :
             leaf \in SpecLeaves(spec)}

\* C13: in a tool that builds, every {{const.K}} of the URL, headers, query
\* and body has K among the tool's constants and every {{arg.K}} has K among
\* its declared LLM variables, so that an invocation supplying every declared
\* variable cannot fail on a const or arg placeholder.
C13_BuiltTemplatesResolve ==
    Built =>
        /\ \A g \in PlaceholdersOf(config.api_spec, "const") : g.key \in ConstKeys
        /\ \A g \in PlaceholdersOf(config.api_spec, "arg") : g.key \in LLMVarNames

-----------------------------------------------------------------------------
(* Properties of the template language *)

\* The template has a conditional block, a filter, an expression or a
\* multi-level attribute path.
HasConstruct(tpl) ==
    \E i \in 1..Len(tpl.v) : tpl.v[i].t \in {"if", "filter", "expr", "path"}

\* C14: a template with a construct other than {{const.K}}, {{ctx.K}} or
\* {{arg.K}} (a conditional block, a filter, an expression, a multi-level
\* attribute path) is rejected when a tool that carries it is built, and
\* render_template never evaluates it.
C14_OnlyFlatLookup ==
    /\ (tool # Unset /\ HasConstruct(template)) => tool.raised
    /\ (rendered # Unset /\ HasConstruct(template)) => rendered.raised

\* C15: render_template returns a string that has no {{namespace.key}}
\* placeholder unchanged, whatever const, ctx and arg are, also when the
\* string has other bracket syntax ('{%', '{#', single braces).
C15_NoPlaceholderUnchanged ==
    (rendered # Unset /\ template.k = "str"
       /\ PLACEHOLDER_PATTERN_findall(template.v) = <<>>) =>
        /\ ~rendered.raised
        /\ rendered.val = template

\* The structure with every string leaf rendered, at every depth.
RECURSIVE RenderEveryLeaf(_)
RenderEveryLeaf(node) ==
    CASE node.k = "str" -> render_template(node, const, ctx, arg).val
      [] node.k = "map" -> MapV([key \in DOMAIN node.v |-> RenderEveryLeaf(node.v[key])])
      [] node.k = "list" -> ListV([i \in 1..Len(node.v) |-> RenderEveryLeaf(node.v[i])])
      [] OTHER -> node

\* C16: when every string leaf renders, render_dict returns the input's
\* structure with every string leaf rendered at every nesting depth (in
\* maps, in lists and in lists nested in lists) and every other leaf
\* unchanged.
C16_RenderDictEveryLeaf ==
    (rendered # Unset /\ dict_data # Unset
       /\ \A leaf \in StringLeaves(dict_data) :
             ~render_template(leaf, const, ctx, arg).raised) =>
        /\ ~rendered.raised
        /\ rendered.val = RenderEveryLeaf(dict_data)

-----------------------------------------------------------------------------
(* Properties of the trace log *)

Sensitive(key) == FieldsIn(key) \cap SENSITIVE_FIELDS # {}

\* shown is orig with the mask in place of every value under a sensitive
\* key, at every depth.
RECURSIVE MaskedEverywhere(_, _)
MaskedEverywhere(orig, shown) ==
    CASE orig.k = "map" ->
            /\ shown.k = "map"
            /\ DOMAIN shown.v = DOMAIN orig.v
            /\ \A key \in DOMAIN orig.v :
                  IF Sensitive(key) THEN shown.v[key] = MASK
                  ELSE MaskedEverywhere(orig.v[key], shown.v[key])
      [] orig.k = "list" ->
            /\ shown.k = "list"
            /\ Len(shown.v) = Len(orig.v)
            /\ \A i \in 1..Len(orig.v) : MaskedEverywhere(orig.v[i], shown.v[i])
      [] OTHER -> shown = orig

\* The string values stored under a sensitive key, at every depth.
RECURSIVE SecretValues(_)
SecretValues(node) ==
    CASE node.k = "map" ->
            UNION {IF Sensitive(key) THEN StringLeaves(node.v[key])
                   ELSE SecretValues(node.v[key]) : key \in DOMAIN node.v}
      [] node.k = "list" -> UNION {SecretValues(node.v[i]) : i \in 1..Len(node.v)}
      [] OTHER -> {}

\* The text v occurs in the text t.
OccursIn(v, t) ==
    /\ v # <<>>
    /\ \E i \in 1..Len(t) : i + Len(v) - 1 <= Len(t) /\ SubSeq(t, i, i + Len(v) - 1) = v

\* C17: the log entry of a render_template call shows the mask in place of
\* every value stored under a sensitive key, at any depth of the namespaces,
\* and no such value occurs anywhere in the entry: not in the logged
\* context, and not in the logged result when the template substitutes it.
C17_LogNeverShowsSecrets ==
    \A i \in 1..Len(log) :
        LET entry == log[i]
            context == MapV([const |-> const, ctx |-> ctx, arg |-> arg])
        IN /\ MaskedEverywhere(context, entry.context)
           /\ \A secret \in SecretValues(context) :
                 /\ ~OccursIn(secret.v, entry.result)
                 /\ \A leaf \in StringLeaves(entry.context) : ~OccursIn(secret.v, leaf.v)

-----------------------------------------------------------------------------
(* Properties of the built tool *)

\* The configurations that differ from the built one only in the values of
\* the constants.
ConstValues == {Str(<<Lit("XYZ")>>), Str(<<Lit("rotated")>>)}

ConstVariants ==
    IF config.consts.k # "map" THEN {config}
    ELSE {[config EXCEPT !.consts = MapV(f)] : f \in [DOMAIN config.consts.v -> ConstValues]}

DescriptorTexts(holder) ==
    {<<Lit(holder.name)>>, holder.description, holder.usage_instructions_llm}

\* C18: a tool built from the same specification with other values of the
\* constants has the same name, description and usage instructions, and no
\* constant's value occurs in any of these three texts.
C18_ConstantsNotExposed ==
    Built =>
        /\ \A other \in ConstVariants :
              LET holder == build_webhook_tool(other)
              IN /\ ~holder.raised
                 /\ holder.val.name = tool.val.name
                 /\ holder.val.description = tool.val.description
                 /\ holder.val.usage_instructions_llm = tool.val.usage_instructions_llm
        /\ \A key \in ConstKeys, text \in DescriptorTexts(tool.val) :
              ~OccursIn(PyStr(config.consts.v[key]), text)

C18_Witness ==
    /\ Built
    /\ ConstKeys = {"api_key", "desired_time", "q"}
    /\ config.api_spec.headers = MapV("Authorization" :> T(<<Lit("Bearer "), Ph("const", "api_key")>>))
    /\ Cardinality(ConstVariants) = 8

\* C19: a tool built from a specification with an explicit description
\* carries that description; without one it carries the text generated from
\* the method, the URL and the names of the LLM variables.
C19_ExplicitDescriptionWins ==
    Built =>
        IF config.description # NoneV
        THEN OccursIn(config.description.v, tool.val.description)
        ELSE tool.val.description = _generate_description_with_params(config)

\* The parameter the schema has for one declared LLM variable.
ParameterOf(var) ==
    [name |-> var.name, description |-> var.description,
     type |-> var.schema, required |-> var.required]

\* C20: the parameters of the built callable are exactly the declared LLM
\* variables, each with its name, description, type and required flag; an
\* invocation is accepted only with declared arguments; the arg namespace
\* of the request is the arguments as supplied.
C20_ParametersAreLLMVars ==
    /\ Built =>
          /\ tool.val.fnc.parameters =
                [i \in 1..Len(config.api_spec.llm_vars) |->
                    ParameterOf(config.api_spec.llm_vars[i])]
          /\ ~tool.val.fnc.var_keyword
    /\ invocations > 0 => DOMAIN llm_args.v \subseteq LLMVarNames


\* ======================================================================
\* AgentConfig (core/config.py): construction and lookup of tools
\* ======================================================================

ValueError(msg) == Raise("ValueError", msg)

MIN_CONVERSATION_DURATION == 30

\* [tool.name for tool in self.tools]
tool_names(self) == [i \in 1..Len(self.tools) |-> self.tools[i].name]

\* set(xs)
set(xs) == {xs[i] : i \in 1..Len(xs)}

\* The uniqueness test weakened to neighbouring tools only.
__post_init___adjacent_only(self) ==
    IF self.agent_id = "" THEN ValueError("agent_id is required")
    ELSE IF self.name = "" THEN ValueError("name is required")
    ELSE IF /\ self.max_conversation_duration.k = "num"
            /\ self.max_conversation_duration.v # 0
            /\ self.max_conversation_duration.v < MIN_CONVERSATION_DURATION
    THEN ValueError("max_conversation_duration must be at least 30 seconds")
    ELSE IF \E i \in 1..(Len(self.tools) - 1) :
                tool_names(self)[i] = tool_names(self)[i + 1]
    THEN ValueError("Tool names must be unique")
    ELSE Return(self)

\* AgentConfig.__post_init__: the checks in the order of the code; the two
\* logger.warning checks change nothing and raise nothing.
__post_init__(self) ==
    IF self.agent_id = "" THEN ValueError("agent_id is required")
    ELSE IF self.name = "" THEN ValueError("name is required")
    ELSE IF /\ self.max_conversation_duration.k = "num"
            /\ self.max_conversation_duration.v # 0
            /\ self.max_conversation_duration.v < MIN_CONVERSATION_DURATION
    THEN ValueError("max_conversation_duration must be at least 30 seconds")
    ELSE IF Len(tool_names(self)) # Cardinality(set(tool_names(self)))
    THEN ValueError("Tool names must be unique")
    ELSE Return(self)

\* AgentConfig.get_tool_by_name: the first tool of the list with the name.
get_tool_by_name(self, name) ==
    LET S == {i \in 1..Len(self.tools) : self.tools[i].name = name}
    IN IF S = {} THEN NoneV
       ELSE self.tools[CHOOSE i \in S : \A j \in S : i <= j]

\* ---- inputs ----
MaxTools == 3

ToolNames == {"lookup_order", "send_sms"}

AgentTools == [id : {"t1", "t2"}, name : ToolNames]

ToolLists == UNION {[1..n -> AgentTools] : n \in 0..MaxTools}

AgentArgs ==
    [agent_id : {"", "agent-1"},
     name : {"", "Test Agent"},
     max_conversation_duration : {NoneV, Num(0), Num(10), Num(30)},
     tools : ToolLists]

InitAgent ==
    /\ agent_args \in AgentArgs
    /\ agent_config = Unset
    /\ lookup = Unset
    /\ ResolverIdle /\ ExecIdle /\ DetachedIdle /\ SharedIdle

\* AgentConfig(...): the dataclass stores the arguments and runs __post_init__.
ConstructAgent ==
    /\ agent_config = Unset
    /\ agent_config' = __post_init__(agent_args)
    /\ UNCHANGED <<agent_args, lookup>>
    /\ UNCHANGED <<rvars, xvars, dvars, svars>>

\* config.get_tool_by_name(n) on a constructed configuration.
GetToolByName ==
    /\ agent_config # Unset
    /\ ~agent_config.raised
    /\ \E n \in ToolNames \cup {"missing"} :
        lookup' = [name |-> n, returned |-> get_tool_by_name(agent_config.val, n)]
    /\ UNCHANGED <<agent_args, agent_config>>
    /\ UNCHANGED <<rvars, xvars, dvars, svars>>

SpecAgent == InitAgent /\ [][ConstructAgent \/ GetToolByName]_vars

\* ---- C21 ----
HasDuplicateNames(tools) ==
    \E i, j \in 1..Len(tools) : i # j /\ tools[i].name = tools[j].name

AgentFieldsValid(a) ==
    /\ a.agent_id # "" /\ a.name # ""
    /\ \/ a.max_conversation_duration = NoneV
       \/ a.max_conversation_duration.v = 0
       \/ a.max_conversation_duration.v >= MIN_CONVERSATION_DURATION

\* C21 as stated: every construction with two tools of the same name fails
\* with the message 'Tool names must be unique'.
C21_DuplicateAlwaysReportsUniqueness ==
    (agent_config # Unset /\ HasDuplicateNames(agent_args.tools)) =>
        /\ agent_config.raised
        /\ agent_config.msg = "Tool names must be unique"

\* C21: a construction whose tool list holds two tools of the same name, at
\* any positions, fails with a ValueError and keeps no tool; the message is
\* 'Tool names must be unique' whenever the checks that run before it
\* (agent_id, name, max_conversation_duration) pass.  Every constructed
\* configuration holds the tools it was given with pairwise distinct names,
\* and get_tool_by_name(n) returns the single tool named n, or None.
C21_ToolNamesUnique ==
    /\ (agent_config # Unset /\ HasDuplicateNames(agent_args.tools)) =>
        /\ agent_config.raised
        /\ agent_config.cls = "ValueError"
        /\ AgentFieldsValid(agent_args) =>
               agent_config.msg = "Tool names must be unique"
    /\ (agent_config # Unset /\ ~agent_config.raised) =>
        /\ agent_config.val.tools = agent_args.tools
        /\ ~HasDuplicateNames(agent_config.val.tools)
    /\ lookup # Unset =>
        LET tools == agent_config.val.tools
            S == {i \in 1..Len(tools) : tools[i].name = lookup.name}
        IN IF S = {} THEN lookup.returned = NoneV
           ELSE /\ Cardinality(S) = 1
                /\ \A i \in S : lookup.returned = tools[i]

\* Two tools of the same name that are not neighbours in the list were
\* rejected by the uniqueness check itself.
C21_Witness ==
    /\ agent_config # Unset
    /\ agent_config.raised
    /\ agent_config.msg = "Tool names must be unique"
    /\ Len(agent_args.tools) = 3
    /\ agent_args.tools[1].name = agent_args.tools[3].name
    /\ agent_args.tools[1].name # agent_args.tools[2].name


\* ======================================================================
\* Fire-and-forget tools (tools/tool_holder.py, tools/decorators.py)
\* ======================================================================

\* Python's `a or b` on an optional string.
str_or(a, b) == IF a = NoneV \/ a = Str(<<>>) THEN b ELSE a

\* ToolHolder.__init__: the name and the function the holder registers.
ToolHolder(fnc, name) ==
    [fnc |-> fnc, name |-> IF name = NoneV THEN fnc.name ELSE PyStr(name)]

\* fire_and_forget_wrapper of FireAndForgetToolHolder.__init__ for the
\* function fnc and the name given to the constructor: a function named
\* fire_and_forget_wrapper that makes a task for _execute_and_log and
\* returns the f-string.
fire_and_forget_wrapper(fnc, name) ==
    [name |-> <<Lit("fire_and_forget_wrapper")>>,
     coroutine |-> "_execute_and_log",
     returns |-> <<Lit("Operation ")>> \o PyStr(str_or(name, Str(fnc.name)))
                     \o <<Lit(" started in the background")>>]

\* FireAndForgetToolHolder.__init__: the wrapper is what the parent class
\* gets as its function.
FireAndForgetToolHolder(fnc, name) ==
    ToolHolder(fire_and_forget_wrapper(fnc, name), name)

\* _wrapper of fire_and_forget_tool_decorator: functools.update_wrapper gives
\* it the name of fn; it makes a task for fn itself.
_wrapper(fn, return_message) ==
    [name |-> fn.name,
     coroutine |-> "fn",
     returns |-> PyStr(str_or(return_message,
                    Str(fn.name \o <<Lit(" started in background")>>)))]

\* @fire_and_forget_tool_decorator(return_message=...) on fn, then
\* ToolHolder(fn) as in get_memory_management_tools.
fire_and_forget_tool_decorator(fn, return_message) ==
    ToolHolder(_wrapper(fn, return_message), NoneV)

\* One logger call made by the code of a detached task.
LogEntry(n, level, msg) == [task |-> n, by |-> "task", level |-> level, msg |-> msg]

\* The event loop's report of a task that ended with an exception nobody
\* retrieved ("Task exception was never retrieved"), made when the task
\* object is collected.
LoopReport(n) ==
    [task |-> n, by |-> "asyncio", level |-> "error",
     msg |-> <<Lit("Task exception was never retrieved")>>]

\* ---- inputs ----
MaxTasks == 2

store_important_info == [name |-> <<Lit("store_important_info")>>]

HolderNames == {NoneV, Str(<<Lit("log_event")>>)}

ReturnMessages == {NoneV, Str(<<Lit("Saved")>>)}

FFArgs == {"info-1", "info-2"}

FFErrors == {<<Lit("connection refused")>>, <<Lit("timeout")>>}

FFTools ==
    {[made_by |-> "FireAndForgetToolHolder",
      holder |-> FireAndForgetToolHolder(store_important_info, n)] : n \in HolderNames}
    \cup
    {[made_by |-> "fire_and_forget_tool_decorator",
      holder |-> fire_and_forget_tool_decorator(store_important_info, m)] :
        m \in ReturnMessages}

InitDetached ==
    /\ ff_holder \in FFTools
    /\ tasks = <<>> /\ acks = <<>> /\ task_log = <<>>
    /\ session_ended = FALSE
    /\ ResolverIdle /\ ExecIdle /\ AgentIdle /\ SharedIdle

\* The session calls the tool's function: asyncio.create_task(...) makes
\* the task, whose handle is dropped, and the wrapper returns its text with
\* no await in between.
FireAndForgetInvoke ==
    /\ ~session_ended
    /\ Len(tasks) < MaxTasks
    /\ \E a \in FFArgs :
        tasks' = Append(tasks, [args |-> a, state |-> "running", exception |-> "none"])
    /\ acks' = Append(acks, Return(Str(ff_holder.holder.fnc.returns)))
    /\ UNCHANGED <<ff_holder, task_log, session_ended>>
    /\ UNCHANGED <<rvars, xvars, avars, svars>>

\* The detached function returns.  _execute_and_log logs the completion;
\* a task made for fn itself logs nothing.
TaskReturns ==
    /\ \E n \in 1..Len(tasks) :
        /\ tasks[n].state = "running"
        /\ tasks' = [tasks EXCEPT ![n].state = "done"]
        /\ task_log' =
            IF ff_holder.holder.fnc.coroutine = "_execute_and_log"
            THEN Append(task_log,
                    LogEntry(n, "info", <<Lit("Background task ")>> \o ff_holder.holder.name
                                          \o <<Lit(" completed successfully")>>))
            ELSE task_log
    /\ UNCHANGED <<ff_holder, acks, session_ended>>
    /\ UNCHANGED <<rvars, xvars, avars, svars>>

\* The detached function raises an Exception.  _execute_and_log catches it
\* and logs it; a task made for fn itself ends with the exception stored in
\* the task object.
TaskRaises ==
    /\ \E n \in 1..Len(tasks), e \in FFErrors :
        /\ tasks[n].state = "running"
        /\ IF ff_holder.holder.fnc.coroutine = "_execute_and_log"
           THEN /\ tasks' = [tasks EXCEPT ![n].state = "done", ![n].exception = "caught"]
                /\ task_log' =
                    Append(task_log,
                        LogEntry(n, "error", <<Lit("Error in background task ")>>
                                   \o ff_holder.holder.name \o <<Lit(": ")>> \o e))
           ELSE /\ tasks' = [tasks EXCEPT ![n].state = "done", ![n].exception = "stored"]
                /\ task_log' = task_log
    /\ UNCHANGED <<ff_holder, acks, session_ended>>
    /\ UNCHANGED <<rvars, xvars, avars, svars>>

\* A finished task whose exception nobody retrieved is collected, and the
\* event loop's exception handler reports it.
TaskCollected ==
    /\ \E n \in 1..Len(tasks) :
        /\ tasks[n].exception = "stored"
        /\ tasks' = [tasks EXCEPT ![n].exception = "reported"]
        /\ task_log' = Append(task_log, LoopReport(n))
    /\ UNCHANGED <<ff_holder, acks, session_ended>>
    /\ UNCHANGED <<rvars, xvars, avars, svars>>

\* The session ends and the job's shutdown callbacks run on the same event
\* loop.  No code keeps, awaits or cancels the tasks made by the wrappers.
SessionEnd ==
    /\ ~session_ended
    /\ session_ended' = TRUE
    /\ UNCHANGED <<ff_holder, tasks, acks, task_log>>
    /\ UNCHANGED <<rvars, xvars, avars, svars>>

SpecDetached ==
    InitDetached /\ [][FireAndForgetInvoke \/ TaskReturns \/ TaskRaises
                        \/ TaskCollected \/ SessionEnd]_vars

\* ---- C22 ----
\* C22: every invocation of a tool held by a FireAndForgetToolHolder has
\* returned 'Operation <tool name> started in the background', whatever the
\* arguments and whatever has become of its task.
C22_FixedAcknowledgement ==
    ff_holder # Unset /\ ff_holder.made_by = "FireAndForgetToolHolder" =>
        \A n \in 1..Len(acks) :
            acks[n] = Return(Str(<<Lit("Operation ")>> \o ff_holder.holder.name
                                   \o <<Lit(" started in the background")>>))

\* ---- C23 ----
\* C23: on both paths, every exception raised by a detached function has
\* been caught and logged as an error by the task itself, and the
\* invocation that made the task returned its acknowledgement.
C23_FailureLoggedByTask ==
    \A n \in 1..Len(tasks) :
        tasks[n].exception # "none" =>
            /\ tasks[n].exception = "caught"
            /\ \E i \in 1..Len(task_log) :
                /\ task_log[i].task = n
                /\ task_log[i].by = "task"
                /\ task_log[i].level = "error"
            /\ ~acks[n].raised

\* ---- C24 ----
\* C24: once the session has ended no detached task is running, and none
\* is started.
C24_TasksEndWithSession ==
    /\ [](session_ended => \A n \in 1..Len(tasks) : tasks[n].state # "running")
    /\ [][session_ended => Len(tasks') = Len(tasks)]_vars


\* ======================================================================
\* The shared builder (webhook_tool_builder.py, _builder)
\* ======================================================================

\* TemplateResolver.__init__: the Jinja environment is the only field.
TemplateResolver ==
    [env |-> [loader |-> "BaseLoader", autoescape |-> FALSE,
              undefined |-> "StrictUndefined"]]

\* WebhookToolBuilder.__init__: the resolver is the only field.
WebhookToolBuilder == [resolver |-> TemplateResolver]

\* A builder that remembers the names it was asked to build and refuses a
\* name it has seen.
_builder_build_webhook_tool_registry(self, cfg) ==
    LET seen == IF "names" \in DOMAIN self THEN self.names ELSE {}
    IN [self |-> [resolver |-> self.resolver, names |-> seen \cup {cfg.name}],
        config |-> cfg,
        outcome |-> IF cfg.name \in seen
                    THEN Raise(WebhookConfigError, ToolMsg(cfg, <<Lit(" is already built")>>))
                    ELSE build_webhook_tool(cfg)]

\* build_webhook_tool(config) of the module: _builder.build_webhook_tool(config).
\* The builder and the configuration after the call, and the outcome: no
\* statement on the way assigns to a field of self or of config.
_builder_build_webhook_tool(self, cfg) ==
    [self |-> self, config |-> cfg, outcome |-> build_webhook_tool(cfg)]

\* ---- inputs ----
MaxBuilds == 3

ApiSpec(url, method, headers, body, llm_vars) ==
    [url |-> url, method |-> method, headers |-> headers, query |-> MapV(EmptyDict),
     body |-> body, llm_vars |-> llm_vars]

WebhookTool(name, consts, api_spec) ==
    [name |-> name, description |-> NoneV, type |-> "webhook", consts |-> consts,
     api_spec |-> api_spec]

BookSlotTool ==
    WebhookTool("bookSlot", NoneV,
        ApiSpec(UrlBook, "POST",
                MapV("X-Customer" :> T(<<Ph("ctx", "customer_id")>>)),
                MapV("time" :> T(<<Ph("arg", "desired_time")>>)),
                <<LLMVar("desired_time")>>))

FindItemTool ==
    WebhookTool("findItem", MapV("api_key" :> T(<<Lit("XYZ")>>)),
        ApiSpec(T(<<Lit("https://api.example.com/find/"), Ph("arg", "q")>>), "get",
                MapV("Authorization" :> T(<<Lit("Bearer "), Ph("const", "api_key")>>)),
                NoneV,
                <<LLMVar("q")>>))

BuildConfigs ==
    { BookSlotTool,
      FindItemTool,
      \* the name of a valid tool with an unsupported method
      WebhookTool("bookSlot", NoneV,
          ApiSpec(UrlBook, "FETCH", MapV(EmptyDict), NoneV, <<>>)),
      \* a foreign namespace
      WebhookTool("lookup", NoneV,
          ApiSpec(T(<<Lit("https://api.example.com/"), Ph("env", "k")>>), "POST",
                  MapV(EmptyDict), NoneV, <<>>)),
      \* no api_spec
      WebhookTool("empty", NoneV, NoneV),
      \* two LLM variables of the same name
      WebhookTool("search", NoneV,
          ApiSpec(T(<<Lit("https://api.example.com/find/"), Ph("arg", "q")>>), "POST",
                  MapV(EmptyDict), NoneV, <<LLMVar("q"), LLMVar("q")>>)) }

InitBuilds ==
    /\ builder = WebhookToolBuilder
    /\ builds = <<>>
    /\ inflight = <<>>
    /\ userdata = Unset
    /\ ResolverIdle /\ ExecIdle /\ AgentIdle /\ DetachedIdle

\* build_webhook_tool(cfg) on the module's builder.
BuildTool ==
    /\ Len(builds) < MaxBuilds
    /\ \E cfg \in BuildConfigs :
        \E out \in {_builder_build_webhook_tool(builder, cfg)} :
            /\ builder' = out.self
            /\ builds' = Append(builds, [given |-> cfg, config |-> out.config,
                                         outcome |-> out.outcome])
    /\ UNCHANGED <<inflight, userdata>>
    /\ UNCHANGED <<rvars, xvars, avars, dvars>>

SpecBuilds == InitBuilds /\ [][BuildTool]_vars

C29_LLMVarNamesDistinct ==
    \A n \in 1..Len(builds) :
        ~builds[n].outcome.raised =>
            LET llm_vars == builds[n].given.api_spec.llm_vars
            IN \A i, j \in 1..Len(llm_vars) :
                   llm_vars[i].name = llm_vars[j].name => i = j


\* ======================================================================
\* Concurrent invocations of the tools of the shared builder
\* ======================================================================

\* The RunContext the session hands to a tool: its userdata is the
\* userdata of the session.
RunContextOf(ud) == [userdata |-> ud, session |-> [k |-> "session", userdata |-> ud]]

\* An executor that keeps the runtime context on the builder and updates
\* it on every invocation instead of starting from an empty map.
_execute_webhook_start_shared_ctx(self, cfg, rc, args) ==
    LET prev == IF "runtime_ctx" \in DOMAIN self THEN self.runtime_ctx ELSE MapV(EmptyDict)
        fresh == _build_runtime_context(rc)
        merged == IF fresh.raised THEN prev ELSE Update(prev, fresh.val)
    IN [self |-> [resolver |-> self.resolver, runtime_ctx |-> merged],
        config |-> cfg, ctx |-> rc, llm_args |-> args,
        call |-> IF fresh.raised THEN fresh
                 ELSE render_request(cfg.api_spec, OrEmpty(cfg.consts), merged, args)]

\* webhook_function(ctx, **kwargs) up to the await of the HTTP call: the
\* builder, the configuration, the context and the arguments as they are
\* after it, and the call made (or the exception raised before it).
\* const_ctx and arg_ctx alias the configuration's constants and the
\* arguments and are only read; runtime_ctx is a dict made by
\* _build_runtime_context; the rendered parts are new objects.
_execute_webhook_start(self, cfg, rc, args) ==
    [self |-> self, config |-> cfg, ctx |-> rc, llm_args |-> args,
     call |-> _execute_webhook_request(cfg, rc, args)]

\* ---- inputs ----
MaxCalls == 2

Sessions == {"s1", "s2"}

InitialUserdata ==
    [s \in Sessions |->
        IF s = "s1" THEN MapV("customer_id" :> T(<<Lit("cust123")>>))
        ELSE MapV(EmptyDict)]

\* A tool that puts the argument q into the URL, a header, the query and a
\* string body, next to a constant in another header.
EchoTool ==
    WebhookTool("echo", MapV("api_key" :> T(<<Lit("XYZ")>>)),
        [ApiSpec(T(<<Lit("https://api.example.com/find/"), Ph("arg", "q")>>), "POST",
                 MapV(("Authorization" :> T(<<Lit("Bearer "), Ph("const", "api_key")>>))
                      @@ ("X-Query" :> T(<<Ph("arg", "q")>>))),
                 T(<<Lit("{\""), Lit("q"), Lit("\": \""), Ph("arg", "q"), Lit("\"}")>>),
                 <<LLMVar("q")>>)
         EXCEPT !.query = MapV("q" :> T(<<Ph("arg", "q")>>))])

ConcurrentTools == <<BookSlotTool, FindItemTool, EchoTool>>

\* Arguments whose values are the texts {{ctx.customer_id}} and
\* {{const.api_key}}.
PlaceholderArgs ==
    MapV(("desired_time" :> T(<<Ph("ctx", "customer_id")>>))
         @@ ("q" :> T(<<Ph("const", "api_key")>>)))

ConcurrentArgs ==
    { MapV(("desired_time" :> T(<<Lit("3pm")>>)) @@ ("q" :> T(<<Lit("shoes")>>))),
      PlaceholderArgs }

ConcurrentOutcomes ==
    { HttpResponse(200, <<Lit("{\""), Lit("success"), Lit("\": \""), Lit("yes"), Lit("\"}")>>),
      HttpResponse(500, <<Lit("OK")>>),
      HttpError("ReadTimeout") }

InitConcurrent ==
    /\ builder = WebhookToolBuilder
    /\ builds = [t \in 1..Len(ConcurrentTools) |->
                    [given |-> ConcurrentTools[t], config |-> ConcurrentTools[t],
                     outcome |-> build_webhook_tool(ConcurrentTools[t])]]
    /\ inflight = <<>>
    /\ userdata = InitialUserdata
    /\ ResolverIdle /\ ExecIdle /\ AgentIdle /\ DetachedIdle

\* A session invokes one of the built tools while other invocations may be
\* waiting for their responses.
StartCall ==
    /\ Len(inflight) < MaxCalls
    /\ \E t \in 1..Len(builds), s \in Sessions, a \in ConcurrentArgs :
        /\ ~builds[t].outcome.raised
        /\ \E out \in {_execute_webhook_start(builder, builds[t].config,
                                              RunContextOf(userdata[s]), a)} :
            /\ builder' = out.self
            /\ builds' = [builds EXCEPT ![t].config = out.config]
            /\ userdata' = [userdata EXCEPT ![s] = out.ctx.userdata]
            /\ inflight' = Append(inflight,
                  [tool |-> t, session |-> s, args |-> a, llm_args |-> out.llm_args,
                   pc |-> IF out.call.raised THEN "done" ELSE "waiting",
                   request |-> IF out.call.raised THEN Unset ELSE out.call.val,
                   response |-> Unset,
                   result |-> IF out.call.raised THEN _execute_webhook_except(out.call)
                              ELSE Unset])
    /\ UNCHANGED <<rvars, xvars, avars, dvars>>

\* The response of one waiting invocation arrives; the rest of
\* _execute_webhook runs for it.
CallResponds ==
    /\ \E i \in 1..Len(inflight), r \in ConcurrentOutcomes :
        /\ inflight[i].pc = "waiting"
        /\ inflight' = [inflight EXCEPT
              ![i].pc = "done",
              ![i].response = r,
              ![i].result = _execute_webhook_except(_execute_webhook_response(r))]
    /\ UNCHANGED <<builder, builds, userdata>>
    /\ UNCHANGED <<rvars, xvars, avars, dvars>>

SpecConcurrent == InitConcurrent /\ [][StartCall \/ CallResponds]_vars

\* ---- C25 ----
\* The request and the result of an invocation are those of the same
\* invocation made alone: on the builder as constructed, with the
\* configuration as built and the session's state as it was at the start.
AsAlone(c) ==
    LET alone == _execute_webhook_start(WebhookToolBuilder, ConcurrentTools[c.tool],
                     RunContextOf(InitialUserdata[c.session]), c.args).call
    IN /\ c.llm_args = c.args
       /\ IF alone.raised
          THEN c.request = Unset /\ c.result = _execute_webhook_except(alone)
          ELSE /\ c.request = alone.val
               /\ c.response # Unset =>
                      c.result = _execute_webhook_except(_execute_webhook_response(c.response))

-----------------------------------------------------------------------------
(* Properties of the request body *)

\* The configured body rendered as a single template.
RenderedBody ==
    render_template(config.api_spec.body, OrEmpty(config.consts), RuntimeCtx.val, llm_args)

\* C27: a string body is rendered and sent as JSON when the rendered text
\* begins with '{' or '[' and parses, and as raw content, unchanged, when it
\* does not begin so or does not parse; a nested body is sent as JSON with
\* every string leaf rendered; with no body configured none is sent.
C27_BodyRendering ==
    (request # Unset /\ EveryLeafRenders) =>
        CASE config.api_spec.body = NoneV ->
                request.json = NoneV /\ request.content = NoneV
          [] config.api_spec.body.k = "str" ->
                IF LooksLikeJson(RenderedBody.val.v) /\ ~json_loads(RenderedBody.val.v).raised
                THEN request.json = json_loads(RenderedBody.val.v).val
                     /\ request.content = NoneV
                ELSE request.content = RenderedBody.val /\ request.json = NoneV
          [] OTHER ->
                request.json = RenderedLeaves(config.api_spec.body)
                /\ request.content = NoneV

\* C28: whatever the method, a request issued for a specification with a
\* configured body carries the method, the URL, the headers, the query and
\* the rendered body.
C28_BodySentForEveryMethod ==
    (request # Unset /\ config.api_spec.body # NoneV) =>
        /\ request.method = upper(config.api_spec.method)
        /\ request.url = RenderedLeaves(config.api_spec.url)
        /\ request.headers = RenderedLeaves(config.api_spec.headers)
        /\ request.params = RenderedLeaves(config.api_spec.query)
        /\ request.json # NoneV \/ request.content # NoneV


-----------------------------------------------------------------------------
(* Substitution is single-pass *)

\* The text s with each placeholder replaced by the text of its value,
\* which is inserted as it is.
RECURSIVE InsertValues(_, _)
InsertValues(s, template_context) ==
    IF s = <<>> THEN <<>>
    ELSE (IF Head(s).t = "ph"
          THEN PyStr(template_context[Head(s).ns].v[Head(s).key])
          ELSE <<Head(s)>>)
         \o InsertValues(Tail(s), template_context)

\* The map d with InsertValues applied to each of its string values.
InsertInto(d, template_context) ==
    MapV([key \in DOMAIN d.v |-> Str(InsertValues(d.v[key].v, template_context))])

\* The texts of a request: URL, header values, query values, and the body.
RequestTexts(req) ==
    StringLeaves(req.url) \cup StringLeaves(req.headers) \cup StringLeaves(req.params)
        \cup StringLeaves(req.json) \cup StringLeaves(req.content)

\* C30: the request of an invocation carries, in its URL, headers and query,
\* each template with the values inserted once and as they are; when the
\* arguments are the texts {{ctx.customer_id}} and {{const.api_key}}, these
\* texts appear verbatim in the URL, the header, the query and the body of
\* the tool that uses the argument there, and the constant's value occurs
\* only in the header whose template names the constant.
C30_SinglePass ==
    \A i \in 1..Len(inflight) :
        inflight[i].request # Unset =>
            LET c == inflight[i]
                cfg == ConcurrentTools[c.tool]
                template_context ==
                    [const |-> OrEmpty(cfg.consts), ctx |-> InitialUserdata[c.session],
                     arg |-> c.args]
                secret == <<Lit("XYZ")>>
                text == <<Ph("const", "api_key")>>
            IN /\ c.request.url.v = InsertValues(cfg.api_spec.url.v, template_context)
               /\ c.request.headers = InsertInto(cfg.api_spec.headers, template_context)
               /\ c.request.params = InsertInto(cfg.api_spec.query, template_context)
               /\ (c.args = PlaceholderArgs /\ cfg = EchoTool) =>
                    /\ OccursIn(text, c.request.url.v)
                    /\ c.request.headers.v["X-Query"] = Str(text)
                    /\ c.request.params.v["q"] = Str(text)
                    /\ c.request.json = MapV("q" :> Str(text))
                    /\ \A leaf \in RequestTexts(c.request) :
                          OccursIn(secret, leaf.v) =>
                              leaf = c.request.headers.v["Authorization"]
               /\ (c.args = PlaceholderArgs /\ cfg = BookSlotTool) =>
                    /\ c.request.json = MapV("time" :> Str(<<Ph("ctx", "customer_id")>>))
                    /\ \A leaf \in RequestTexts(c.request) :
                          OccursIn(<<Lit("cust123")>>, leaf.v) =>
                              leaf = c.request.headers.v["X-Customer"]

\* The tool that uses q everywhere was invoked with q = '{{const.api_key}}'
\* and its request was issued with the constant in the Authorization header.
C30_Witness ==
    \E i \in 1..Len(inflight) :
        /\ inflight[i].tool = 3
        /\ inflight[i].args = PlaceholderArgs
        /\ inflight[i].request # Unset
        /\ inflight[i].request.headers.v["Authorization"] = Str(<<Lit("Bearer "), Lit("XYZ")>>)

====
